---------------------------- MODULE Spec2Model ----------------------------
(***************************************************************************)
(* Model of gst-variable-rtsp-server (version 1.5, the second half of      *)
(* src/src/gst-variable-rtsp-server.c): the adaptive quality controller    *)
(* (changeQuant, changeBitrate), the session callbacks (newClientHandler,  *)
(* mediaConfigureHandler, clientCloseHandler), start-up validation (main)  *)
(* and the command pipe (reader, processCommand).                          *)
(*                                                                         *)
(* All callbacks run on one GLib main loop, so every callback is one       *)
(* atomic action.  Strings travelling over the command pipe are sequences  *)
(* of one-character strings.                                               *)
(***************************************************************************)
EXTENDS Integers, Sequences, FiniteSets, TLC

VARIABLES
    argv,         \* the options on the command line
    si,           \* struct StreamInfo info (main's local, shared by all callbacks)
    gst,          \* the external pipeline: the encoder's property values
    pc,           \* "run": main loop running, "exit": start-up refused, "crashed"
    atoiMaxBr,    \* what atoi(MAX_BR) yields on this build (out of int range)
    pendingMedia, \* attached clients whose media has not been constructed yet
    cmdPipe,      \* bytes written to the command pipe and not yet read
    writerRest,   \* bytes of the line the writing process still has to write
    first_run,    \* newClientHandler's static gboolean first_run
    glib,         \* main-loop registrations: media-configure handlers, timers
    log,          \* side effects of the most recent callback, in order
    dispatched    \* the commands the most recent callback gave to processCommand

vars == <<argv, si, gst, pc, atoiMaxBr, pendingMedia, cmdPipe, writerRest,
          first_run, glib, log, dispatched>>

---------------------------------------------------------------------------
(* Bounds of the model *)

\* most clients attached at once
MaxClients == 3
\* length of the first chunk when the writer splits a line early
ShortCut == 3
\* how far a line may exceed the reader's line buffer
MaxExcess == 1
\* most periodic message timers scheduled at once
MaxTimers == 2
\* most clients attached at once when the quality controller is checked alone
MaxViewers == 5
\* the most clients attached at once while commands are interpreted
MaxCmdClients == 2

---------------------------------------------------------------------------
(* Program constants *)

DEFAULT_CONFIG_INTERVAL == 2
DEFAULT_IDR_INTERVAL == 0
DEFAULT_STEPS == 5
MIN_BR == 0
DEFAULT_BR == 10000
MIN_QUANT_LVL == 0
MAX_QUANT_LVL == 51
NO_FILE == -1
\* char ch_buffer[256] in reader
CH_BUFFER_SIZE == 256
\* largest gint
G_MAXINT == 2147483647
\* .minBitrate = 1 and the "Minimum bitrate is 1" clamp
MIN_BITRATE_FLOOR == 1
\* .periodicStatusMessageRate = 5
DEFAULT_MSG_RATE == 5

NULL == 0
\* an indeterminate non-null pointer value (uninitialised heap memory)
Garbage == -1
\* a live GstElement obtained from the media
Handle == 1

SlotNames == {"pipeline", "source", "encoder", "protocol"}

---------------------------------------------------------------------------
(* gint arithmetic: 32-bit two's complement, computed without leaving      *)
(* the 32-bit range.                                                       *)

G_MININT == -G_MAXINT - 1

\* a + b wrapped to 32 bits
AddWrap(a, b) ==
    IF a >= 0 /\ b >= 0
    THEN IF a > G_MAXINT - b
         THEN ((a - G_MAXINT) - 1) + ((b - G_MAXINT) - 1)
         ELSE a + b
    ELSE IF a < 0 /\ b < 0
    THEN IF a < G_MININT - b
         THEN ((a + G_MAXINT) + 1) + ((b + G_MAXINT) + 1)
         ELSE a + b
    ELSE a + b

\* -a wrapped to 32 bits
NegWrap(a) == IF a = G_MININT THEN G_MININT ELSE -a

\* a - b wrapped to 32 bits
SubWrap(a, b) ==
    IF b = G_MININT
    THEN AddWrap(AddWrap(a, G_MAXINT), 1)
    ELSE AddWrap(a, -b)

RECURSIVE MulWrapNat(_, _)
\* k * x wrapped to 32 bits, for a small k >= 0
MulWrapNat(k, x) == IF k = 0 THEN 0 ELSE AddWrap(MulWrapNat(k - 1, x), x)

\* k * x wrapped to 32 bits
MulWrap(k, x) == IF k >= 0 THEN MulWrapNat(k, x) ELSE NegWrap(MulWrapNat(-k, x))

\* C's integer division, truncating toward zero (d > 0)
TruncDiv(a, d) == IF a >= 0 THEN a \div d ELSE -((-(a + 1)) \div d) - (IF (-(a + 1)) % d = d - 1 THEN 1 ELSE 0)


---------------------------------------------------------------------------
(* main: option parsing and start-up validation.  An option that is not    *)
(* given is <<>>, an option given with the integer n (atoi of its          *)
(* argument) is <<n>>.                                                     *)

StepsArgs == {<<>>, <<1>>, <<2>>}
CapBitrateArgs == {<<>>, <<0>>, <<10000>>}
MinBitrateArgs == {<<>>, <<6000>>}
MaxBitrateArgs == {<<>>, <<5000>>, <<1431655766>>}
MaxQuantArgs == {<<>>, <<5>>, <<51>>}
MinQuantArgs == {<<>>, <<10>>, <<60>>}
\* atoi of a string beyond INT_MAX is undefined: with a 32-bit long strtol
\* saturates at INT_MAX, with a 64-bit long the value is truncated to -1
AtoiMaxBrOutcomes == {G_MAXINT, -1}

Args == [steps : StepsArgs, capBitrate : CapBitrateArgs, minBitrate : MinBitrateArgs,
         maxBitrate : MaxBitrateArgs, maxQuant : MaxQuantArgs, minQuant : MinQuantArgs]

NoArgs == [steps |-> <<>>, capBitrate |-> <<>>, minBitrate |-> <<>>,
           maxBitrate |-> <<>>, maxQuant |-> <<>>, minQuant |-> <<>>]

\* struct StreamInfo info = { ... }: fields without an initialiser are zero
InfoInit ==
    [numConnectedClients |-> 0,
     connected |-> FALSE,
     configInterval |-> DEFAULT_CONFIG_INTERVAL,
     idr |-> DEFAULT_IDR_INTERVAL,
     enableVariableMode |-> TRUE,
     steps |-> DEFAULT_STEPS - 1,
     minQuantLevel |-> MIN_QUANT_LVL,
     maxQuantLevel |-> MIN_QUANT_LVL,
     currentQuantLevel |-> MIN_QUANT_LVL,
     minBitrate |-> MIN_BITRATE_FLOOR,
     maxBitrate |-> MIN_BR,
     capBitrate |-> 0,
     currentBitrate |-> DEFAULT_BR,
     periodicStatusMessageRate |-> DEFAULT_MSG_RATE,
     commandPipe |-> FALSE,
     statusPipe |-> FALSE,
     commandPipeFd |-> NO_FILE,
     statusPipeFd |-> NO_FILE,
     statusPipeStream |-> NULL,
     streamMem |-> "null",
     stream |-> [e \in SlotNames |-> NULL],
     media |-> NULL]

\* case 0, "steps"
OptSteps(info, a) ==
    IF a = <<>> THEN info ELSE [info EXCEPT !.steps = a[1] - 1]

\* case 0, "cap-bitrate"
OptCapBitrate(info, a, maxBr) ==
    IF a = <<>> THEN info
    ELSE IF a[1] > maxBr THEN [info EXCEPT !.capBitrate = maxBr]
    ELSE IF a[1] <= MIN_BR THEN [info EXCEPT !.capBitrate = maxBr]
    ELSE [info EXCEPT !.capBitrate = a[1]]

\* case 0, "min-bitrate"
OptMinBitrate(info, a, maxBr) ==
    IF a = <<>> THEN info
    ELSE IF a[1] > maxBr THEN [info EXCEPT !.minBitrate = maxBr]
    ELSE IF a[1] <= MIN_BR THEN [info EXCEPT !.minBitrate = MIN_BITRATE_FLOOR]
    ELSE [info EXCEPT !.minBitrate = a[1]]

\* case 0, "max-quant-lvl"
OptMaxQuant(info, a) ==
    IF a = <<>> THEN info
    ELSE IF a[1] > MAX_QUANT_LVL THEN [info EXCEPT !.maxQuantLevel = MAX_QUANT_LVL]
    ELSE IF a[1] < MIN_QUANT_LVL THEN [info EXCEPT !.maxQuantLevel = MIN_QUANT_LVL]
    ELSE [info EXCEPT !.maxQuantLevel = a[1]]

\* case 'b'
OptMaxBitrate(info, a, maxBr) ==
    IF a = <<>> THEN info
    ELSE IF a[1] > maxBr THEN [info EXCEPT !.maxBitrate = maxBr]
    ELSE IF a[1] < MIN_BR THEN [info EXCEPT !.maxBitrate = MIN_BR]
    ELSE [info EXCEPT !.maxBitrate = a[1]]

\* case 'l'
OptMinQuant(info, a) ==
    LET v == IF a[1] > MAX_QUANT_LVL THEN MAX_QUANT_LVL
             ELSE IF a[1] < MIN_QUANT_LVL THEN MIN_QUANT_LVL
             ELSE a[1]
    IN  IF a = <<>> THEN info
        ELSE [info EXCEPT !.minQuantLevel = v, !.currentQuantLevel = v]

\* the getopt loop: every option writes its own fields, so the order of the
\* options on the command line does not matter
ParseArgs(args, maxBr) ==
    OptMinQuant(
      OptMaxBitrate(
        OptMaxQuant(
          OptMinBitrate(
            OptCapBitrate(
              OptSteps(InfoInit, args.steps),
              args.capBitrate, maxBr),
            args.minBitrate, maxBr),
          args.maxQuant),
        args.maxBitrate, maxBr),
      args.minQuant)

\* "Max bitrate must be <= cap bitrate", then info.currentBitrate = info.capBitrate
CapMaxBitrate(info) ==
    LET i1 == IF info.maxBitrate > info.capBitrate
              THEN [info EXCEPT !.maxBitrate = info.capBitrate]
              ELSE info
    IN  [i1 EXCEPT !.currentBitrate = i1.capBitrate]

\* "Validate inputs" without the test steps < 1
ValidInputsNoSteps(info) ==
    /\ ~(info.maxQuantLevel < info.minQuantLevel)
    /\ ~(info.maxBitrate > 0 /\ info.maxBitrate <= info.minBitrate)

\* "Validate inputs": TRUE when main goes on to run the main loop
ValidInputs(info) ==
    /\ ~(info.maxQuantLevel < info.minQuantLevel)
    /\ ~(info.maxBitrate > 0 /\ info.maxBitrate <= info.minBitrate)
    /\ ~(info.steps < 1)

\* the state of info when main reaches the validation result
Main(args, maxBr) == CapMaxBitrate(ParseArgs(args, maxBr))


---------------------------------------------------------------------------
(* The callbacks are functions of the "world" they run in: the fields of   *)
(* info, the external pipeline, the main-loop registrations, and the       *)
(* trace of side effects of the callback that is running.                  *)

World == [si |-> si, gst |-> gst, first_run |-> first_run, glib |-> glib,
          log |-> <<>>, dispatched |-> <<>>, crashed |-> FALSE]

\* one side effect of a callback
Ev(op, obj, name, val) == [op |-> op, obj |-> obj, name |-> name, val |-> val]

Emit(w, e) == [w EXCEPT !.log = Append(@, e)]

Crash(w) == [w EXCEPT !.crashed = TRUE]

\* what undefined behaviour does in the callback that runs into it
UBOutcomes == {"benign", "crash"}

\* si->stream[slot] read as an rvalue.  Reading through a null or freed
\* si->stream is undefined: the read faults or yields the stale content.
SlotValue(w, slot) == w.si.stream[slot]

BadStream(w) == w.si.streamMem # "alloc"

\* g_object_set (si->stream[slot], name, val, NULL).  On an indeterminate
\* pointer the call is undefined: it faults, or GObject's instance check
\* rejects the pointer and nothing is set.
GObjectSet(w, slot, name, val, ub) ==
    LET h == SlotValue(w, slot)
        w1 == Emit(w, Ev("set", slot, name, val))
    IN  IF h = Garbage
        THEN IF ub = "crash" THEN Crash(w) ELSE Emit(w, Ev("set-rejected", slot, name, val))
        ELSE IF slot = "encoder" /\ name = "bitrate"
        THEN [w1 EXCEPT !.gst.encBitrate = val]
        ELSE IF slot = "encoder" /\ name = "quant-param"
        THEN [w1 EXCEPT !.gst.encQuant = val]
        ELSE w1

\* setupStatusPipeIfNeeded
setupStatusPipeIfNeeded(w) ==
    IF w.si.statusPipe /\ w.si.statusPipeFd = NO_FILE
    THEN IF w.gst.statusPipeOpens
         THEN Emit([w EXCEPT !.si.statusPipeFd = w.gst.nextFd,
                             !.si.statusPipeStream = Handle],
                   Ev("open", "statusPipe", "ok", w.gst.nextFd))
         ELSE Emit([w EXCEPT !.si.statusPipeFd = -1],
                   Ev("open", "statusPipe", "failed", -1))
    ELSE w

\* sendStatusPipeMessage: the message goes to the status pipe's stream, or
\* to stdout when there is no stream
sendStatusPipeMessage(w, messageType, val) ==
    LET w1 == setupStatusPipeIfNeeded(w)
    IN  IF w1.si.statusPipeStream # NULL
        THEN Emit(w1, Ev("msg", messageType, "statusPipe", val))
        ELSE Emit(w1, Ev("msg", messageType, "stdout", val))

\* _doCommandSendStatus's buffer: the fields it prints (all of them, as
\* enableVariableMode is TRUE)
StatusData(s) ==
    [numConnectedClients |-> s.numConnectedClients,
     connected |-> s.connected,
     configInterval |-> s.configInterval,
     idr |-> s.idr,
     steps |-> s.steps,
     minQuantLevel |-> s.minQuantLevel,
     maxQuantLevel |-> s.maxQuantLevel,
     minBitrate |-> s.minBitrate,
     maxBitrate |-> s.maxBitrate,
     currentBitrate |-> s.currentBitrate,
     currentQuantLevel |-> s.currentQuantLevel,
     periodic_msg_rate |-> s.periodicStatusMessageRate]

\* _doCommandSendStatus
doCommandSendStatus(w) ==
    sendStatusPipeMessage(w, "status", StatusData(w.si))


---------------------------------------------------------------------------
(* Quality model: changeQuant and changeBitrate *)

\* computeQuant without the cap to the max quant level
computeQuantNoCap(s) ==
    LET step == TruncDiv(SubWrap(s.maxQuantLevel, s.minQuantLevel), s.steps)
    IN  AddWrap(MulWrap(SubWrap(s.numConnectedClients, 1), step), s.minQuantLevel)

\* computeQuant scaling down from the max quant level, as changeBitrate does
computeQuantFromMax(s) ==
    LET step == TruncDiv(SubWrap(s.maxQuantLevel, s.minQuantLevel), s.steps)
        q == SubWrap(s.maxQuantLevel, MulWrap(SubWrap(s.numConnectedClients, 1), step))
    IN  IF q < s.minQuantLevel THEN s.minQuantLevel ELSE q

\* computeQuant scaling by the client count instead of the client count - 1
computeQuantOffByOne(s) ==
    LET step == TruncDiv(SubWrap(s.maxQuantLevel, s.minQuantLevel), s.steps)
        q == AddWrap(MulWrap(s.numConnectedClients, step), s.minQuantLevel)
    IN  IF q > s.maxQuantLevel THEN s.maxQuantLevel ELSE q

\* changeQuant, the value it stores: step, scale from min, cap to max
computeQuant(s) ==
    LET step == TruncDiv(SubWrap(s.maxQuantLevel, s.minQuantLevel), s.steps)
        q == AddWrap(MulWrap(SubWrap(s.numConnectedClients, 1), step), s.minQuantLevel)
    IN  IF q > s.maxQuantLevel THEN s.maxQuantLevel ELSE q

\* changeQuant without the test currentQuantLevel != c
changeQuantAlwaysWrite(w, ub) ==
    IF BadStream(w) /\ ub = "crash" THEN Crash(w)
    ELSE IF SlotValue(w, "encoder") # NULL /\ w.si.maxQuantLevel > 0
    THEN LET c == w.si.currentQuantLevel
             q == computeQuant(w.si)
             w1 == Emit([w EXCEPT !.si.currentQuantLevel = q],
                        Ev("changeQuant", "encoder", "quant-param", c))
         IN  GObjectSet(w1, "encoder", "quant-param", q, ub)
    ELSE w

\* changeQuant
changeQuant(w, ub) ==
    IF BadStream(w) /\ ub = "crash" THEN Crash(w)
    ELSE IF SlotValue(w, "encoder") # NULL /\ w.si.maxQuantLevel > 0
    THEN LET c == w.si.currentQuantLevel
             q == computeQuant(w.si)
             w1 == Emit([w EXCEPT !.si.currentQuantLevel = q],
                        Ev("changeQuant", "encoder", "quant-param", c))
         IN  IF q # c THEN GObjectSet(w1, "encoder", "quant-param", q, ub) ELSE w1
    ELSE w

\* changeBitrate, the value it stores: step, scale down from max, cap to min
computeBitrate(s) ==
    LET step == TruncDiv(SubWrap(s.maxBitrate, s.minBitrate), s.steps)
        b == SubWrap(s.maxBitrate, MulWrap(SubWrap(s.numConnectedClients, 1), step))
    IN  IF b < s.minBitrate THEN s.minBitrate ELSE b

\* changeBitrate
changeBitrate(w, ub) ==
    IF BadStream(w) /\ ub = "crash" THEN Crash(w)
    ELSE IF SlotValue(w, "encoder") # NULL
    THEN LET c == w.si.currentBitrate
             b == computeBitrate(w.si)
             w1 == Emit([w EXCEPT !.si.currentBitrate = b],
                        Ev("changeBitrate", "encoder", "bitrate", c))
         IN  IF b # c THEN GObjectSet(w1, "encoder", "bitrate", b, ub) ELSE w1
    ELSE w

\* if (si->enableVariableMode) { if (si->maxBitrate) changeBitrate else changeQuant }
adapt(w, ub) ==
    IF w.si.enableVariableMode
    THEN IF w.si.maxBitrate # 0
         THEN changeBitrate(Emit(w, Ev("call", "changeBitrate", "", w.si.numConnectedClients)), ub)
         ELSE changeQuant(Emit(w, Ev("call", "changeQuant", "", w.si.numConnectedClients)), ub)
    ELSE w

---------------------------------------------------------------------------
(* Session callbacks *)

\* the element gst_bin_get_by_name finds in the media's pipeline
Lookup(w, name) ==
    IF \E i \in 1..Len(w.gst.launch) : w.gst.launch[i] = name THEN Handle ELSE NULL

\* mediaConfigureHandler, one element's initial properties
configureSource(w, ub) ==
    IF SlotValue(w, "source") # NULL
    THEN GObjectSet(w, "source", "device", 0, ub)
    ELSE w

configureEncoder(w, ub) ==
    IF SlotValue(w, "encoder") # NULL
    THEN GObjectSet(
           GObjectSet(
             GObjectSet(w, "encoder", "bitrate", w.si.currentBitrate, ub),
             "encoder", "quant-param", w.si.currentQuantLevel, ub),
           "encoder", "idr-interval", w.si.idr, ub)
    ELSE w

configureProtocol(w, ub) ==
    IF SlotValue(w, "protocol") # NULL
    THEN GObjectSet(w, "protocol", "config-interval", w.si.configInterval, ub)
    ELSE w

\* mediaConfigureHandler, the periodic message timer
createPeriodicTimer(w) ==
    IF w.si.numConnectedClients = 1 /\ w.si.periodicStatusMessageRate > 0
    THEN Emit([w EXCEPT !.glib.timers = @ + 1],
              Ev("g_timeout_add", "periodicMessageHandler", "", w.si.periodicStatusMessageRate))
    ELSE w

\* si->stream[slot] = h: the store replaces what the slot held, recorded
\* as the event's val, without releasing it
bindSlot(w, slot, h) ==
    Emit([w EXCEPT !.si.stream[slot] = h], Ev("bind", slot, h, w.si.stream[slot]))

\* mediaConfigureHandler giving up at the first element it does not find
mediaConfigureHandlerStopAtMissing(w, ub) ==
    IF BadStream(w) /\ ub = "crash" THEN Crash(w)
    ELSE
    LET w1 == bindSlot(bindSlot(bindSlot(bindSlot(
                  [w EXCEPT !.si.media = Handle],
                  "pipeline", Handle),
                  "source", Lookup(w, "source0")),
                  "encoder", Lookup(w, "enc0")),
                  "protocol", Lookup(w, "pay0"))
    IN  IF SlotValue(w1, "source") = NULL THEN w1
        ELSE IF SlotValue(w1, "encoder") = NULL THEN configureSource(w1, ub)
        ELSE createPeriodicTimer(configureProtocol(configureEncoder(configureSource(w1, ub), ub), ub))

\* mediaConfigureHandler
mediaConfigureHandler(w, ub) ==
    IF BadStream(w) /\ ub = "crash" THEN Crash(w)
    ELSE
    LET w1 == bindSlot(bindSlot(bindSlot(bindSlot(
                  [w EXCEPT !.si.media = Handle],
                  "pipeline", Handle),
                  "source", Lookup(w, "source0")),
                  "encoder", Lookup(w, "enc0")),
                  "protocol", Lookup(w, "pay0"))
    IN  createPeriodicTimer(configureProtocol(configureEncoder(configureSource(w1, ub), ub), ub))

\* releaseSlot without si->stream[slot] = NULL
releaseSlotKeepBound(w, slot, ub) ==
    LET h == SlotValue(w, slot)
    IN  IF h = NULL THEN w
        ELSE IF h = Garbage /\ ub = "crash" THEN Crash(w)
        ELSE LET w1 == IF slot = "pipeline"
                       THEN Emit(w, Ev("set_state", slot, "NULL", h))
                       ELSE w
             IN  Emit(w1, Ev("unref", slot, "", h))

\* clientCloseHandler: release one slot (the pipeline is stopped first).
\* gst_object_unref on an indeterminate pointer is undefined.
releaseSlot(w, slot, ub) ==
    LET h == SlotValue(w, slot)
    IN  IF h = NULL THEN w
        ELSE IF h = Garbage /\ ub = "crash" THEN Crash(w)
        ELSE LET w1 == IF slot = "pipeline"
                       THEN Emit(w, Ev("set_state", slot, "NULL", h))
                       ELSE w
             IN  [Emit(w1, Ev("unref", slot, "", h)) EXCEPT !.si.stream[slot] = NULL]

\* clientCloseHandler without si->connected = FALSE
clientCloseHandlerKeepConnected(w, ub) ==
    LET w1 == [w EXCEPT !.si.numConnectedClients = SubWrap(@, 1)]
    IN  IF w1.si.numConnectedClients = 0
        THEN LET w3 == releaseSlot(releaseSlot(releaseSlot(releaseSlot(
                           w1, "pipeline", ub), "source", ub), "encoder", ub), "protocol", ub)
                 w4 == Emit([w3 EXCEPT !.si.streamMem = "freed"],
                            Ev("free", "stream", "", 0))
             IN  IF BadStream(w1) /\ ub = "crash" THEN Crash(w1)
                 ELSE IF w3.crashed THEN w3
                 ELSE doCommandSendStatus(w4)
        ELSE adapt(w1, ub)

\* clientCloseHandler
clientCloseHandler(w, ub) ==
    LET w1 == [w EXCEPT !.si.numConnectedClients = SubWrap(@, 1)]
    IN  IF w1.si.numConnectedClients = 0
        THEN LET w2 == [w1 EXCEPT !.si.connected = FALSE]
                 w3 == releaseSlot(releaseSlot(releaseSlot(releaseSlot(
                           w2, "pipeline", ub), "source", ub), "encoder", ub), "protocol", ub)
                 w4 == Emit([w3 EXCEPT !.si.streamMem = "freed"],
                            Ev("free", "stream", "", 0))
             IN  IF BadStream(w2) /\ ub = "crash" THEN Crash(w2)
                 ELSE IF w3.crashed THEN w3
                 ELSE doCommandSendStatus(w4)
        ELSE adapt(w1, ub)

\* newClientHandler allocating the array for every client, without the
\* test numConnectedClients == 1
newClientHandlerAllocAlways(w, uninit, ub) ==
    LET w1 == [w EXCEPT !.si.numConnectedClients = AddWrap(@, 1),
                        !.si.connected = TRUE]
        wm == Emit([w1 EXCEPT !.si.streamMem = "alloc",
                              !.si.stream = [e \in SlotNames |-> uninit]],
                   Ev("malloc", "stream", "", 0))
        w2 == IF w1.si.numConnectedClients = 1
              THEN IF wm.first_run
                   THEN Emit([wm EXCEPT !.glib.mediaConfigure = @ + 1],
                             Ev("g_signal_connect", "media-configure", "", 0))
                   ELSE wm
              ELSE adapt(wm, ub)
    IN  IF w2.crashed THEN w2
        ELSE [doCommandSendStatus(w2) EXCEPT !.first_run = FALSE]

\* newClientHandler connecting the media-configure handler at the first
\* attach of every session, without the test first_run == TRUE
newClientHandlerConnectAlways(w, uninit, ub) ==
    LET w1 == [w EXCEPT !.si.numConnectedClients = AddWrap(@, 1),
                        !.si.connected = TRUE]
        w2 == IF w1.si.numConnectedClients = 1
              THEN LET wm == Emit([w1 EXCEPT !.si.streamMem = "alloc",
                                             !.si.stream = [e \in SlotNames |-> uninit]],
                                  Ev("malloc", "stream", "", 0))
                   IN  Emit([wm EXCEPT !.glib.mediaConfigure = @ + 1],
                            Ev("g_signal_connect", "media-configure", "", 0))
              ELSE adapt(w1, ub)
    IN  IF w2.crashed THEN w2
        ELSE [doCommandSendStatus(w2) EXCEPT !.first_run = FALSE]

\* newClientHandler; uninit is the content of the freshly malloc'ed array
newClientHandler(w, uninit, ub) ==
    LET w1 == [w EXCEPT !.si.numConnectedClients = AddWrap(@, 1),
                        !.si.connected = TRUE]
        w2 == IF w1.si.numConnectedClients = 1
              THEN LET wm == Emit([w1 EXCEPT !.si.streamMem = "alloc",
                                             !.si.stream = [e \in SlotNames |-> uninit]],
                                  Ev("malloc", "stream", "", 0))
                   IN  IF wm.first_run
                       THEN Emit([wm EXCEPT !.glib.mediaConfigure = @ + 1],
                                 Ev("g_signal_connect", "media-configure", "", 0))
                       ELSE wm
              ELSE adapt(w1, ub)
    IN  IF w2.crashed THEN w2
        ELSE [doCommandSendStatus(w2) EXCEPT !.first_run = FALSE]


---------------------------------------------------------------------------
(* Command protocol.  A command is a sequence of one-character strings.    *)

STR_setparam == <<"s", "e", "t", "p", "a", "r", "a", "m">>
STR_printbin == <<"p", "r", "i", "n", "t", "b", "i", "n">>
STR_status == <<"s", "t", "a", "t", "u", "s">>
STR_enc0 == <<"e", "n", "c", "0">>
STR_pay0 == <<"p", "a", "y", "0">>
STR_source0 == <<"s", "o", "u", "r", "c", "e", "0">>
STR_bitrate == <<"b", "i", "t", "r", "a", "t", "e">>
STR_quant_param == <<"q", "u", "a", "n", "t", "-", "p", "a", "r", "a", "m">>
STR_src == <<"s", "r", "c">>
STR_nosuch == <<"n", "o", "s", "u", "c", "h">>
STR_abc == <<"a", "b", "c">>
STR_1e999 == <<"1", "e", "9", "9", "9">>
STR_Status == <<"S", "t", "a", "t", "u", "s">>

Digits == <<"0", "1", "2", "3", "4", "5", "6", "7", "8", "9">>
IsDigit(c) == \E i \in 1..10 : Digits[i] = c
DigitVal(c) == (CHOOSE i \in 1..10 : Digits[i] = c) - 1

\* the element of the pipeline with the given name, as a pipeline name
ElementNamed(chars) ==
    CASE chars = STR_enc0 -> "enc0"
      [] chars = STR_pay0 -> "pay0"
      [] chars = STR_source0 -> "source0"
      [] OTHER -> "?"

PropertyNamed(chars) ==
    CASE chars = STR_bitrate -> "bitrate"
      [] chars = STR_quant_param -> "quant-param"
      [] OTHER -> "?"

RECURSIVE LeadingNumber(_, _, _)
\* strtod on decimal digits: the value of the longest leading run of digits
\* (0 when there is none), saturating at G_MAXINT
LeadingNumber(chars, i, acc) ==
    IF i > Len(chars) \/ ~IsDigit(chars[i]) THEN acc
    ELSE LeadingNumber(chars, i + 1,
             IF acc > (G_MAXINT - 9) \div 10 THEN G_MAXINT
             ELSE acc * 10 + DigitVal(chars[i]))

\* strtod: errno is set only for a value out of double's range, written
\* here as digits, 'e', and an exponent of at least three digits
StrtodRangeError(chars) ==
    \E i \in 1..Len(chars) :
        /\ chars[i] = "e"
        /\ i > 1
        /\ \A j \in 1..(i - 1) : IsDigit(chars[j])
        /\ Len(chars) - i >= 3
        /\ \A j \in (i + 1)..Len(chars) : IsDigit(chars[j])
        /\ LeadingNumber(chars, 1, 0) > 0
        /\ LeadingNumber(chars, i + 1, 0) > 308

\* doCommandSetParameter from "getting pipeline" on.  params = <<action,
\* elementName, padName, paramName, paramValue>>.  GLib's argument checks turn a call on a NULL
\* object into a logged no-op.
setParameterOnPipeline(w, params, ub) ==
    IF BadStream(w) /\ ub = "crash" THEN Crash(w)
    ELSE IF SlotValue(w, "pipeline") = NULL THEN w
    ELSE IF SlotValue(w, "pipeline") = Garbage /\ ub = "crash" THEN Crash(w)
    ELSE
    LET name == ElementNamed(params[2])
        gstElement == IF SlotValue(w, "pipeline") = Garbage THEN NULL
                      ELSE Lookup(w, name)
        w1 == Emit(w, Ev("gst_bin_get_by_name", name, "", gstElement))
        hasPad == params[3] # <<>>
        \* every element here has the static pads "src" and "sink" at most
        gstPad == IF hasPad /\ gstElement # NULL /\ params[3] = STR_src THEN Handle ELSE NULL
        w2 == IF hasPad
              THEN Emit(Emit(w1, Ev("gst_element_get_static_pad", name, "pad", gstElement)),
                        Ev("got_static_pad", name, "pad", gstPad))
              ELSE w1
        prop == PropertyNamed(params[4])
        value == LeadingNumber(params[5], 1, 0)
        w3 == IF StrtodRangeError(params[5]) THEN w2
              ELSE IF gstPad # NULL
              THEN Emit(Emit(w2, Ev("set_property", "pad", prop, value)),
                        Ev("unref", "pad", "", gstPad))
              ELSE LET w3a == Emit(w2, Ev("set_property", name, prop, gstElement))
                   IN  IF gstElement = NULL THEN w3a
                       ELSE IF name = "enc0" /\ prop = "bitrate"
                       THEN [w3a EXCEPT !.gst.encBitrate = value]
                       ELSE IF name = "enc0" /\ prop = "quant-param"
                       THEN [w3a EXCEPT !.gst.encQuant = value]
                       ELSE w3a
    IN  IF hasPad /\ gstPad = NULL
        THEN Emit(w2, Ev("unref", name, "", gstElement))
        ELSE Emit(w3, Ev("unref", name, "", gstElement))

\* doCommandSetParameter without the test si->connected == FALSE
doCommandSetParameterUnconnected(w, params, ub) ==
    setParameterOnPipeline(w, params, ub)

\* doCommandSetParameter: nothing to do when not connected
doCommandSetParameter(w, params, ub) ==
    IF w.si.connected = FALSE THEN w
    ELSE setParameterOnPipeline(w, params, ub)

\* printElements stopping after the first element
printElementsFirstOnly(w, i) ==
    IF i > Len(w.gst.launch) THEN w
    ELSE sendStatusPipeMessage(w, "elementprops", i)

RECURSIVE printElements(_, _)
\* doCommandPrintBin's iteration: printObjectPropertiesInfo sends one
\* elementprops message for each element of the pipeline
printElements(w, i) ==
    IF i > Len(w.gst.launch) THEN w
    ELSE printElements(sendStatusPipeMessage(w, "elementprops", i), i + 1)

\* doCommandPrintBin
doCommandPrintBin(w, ub) ==
    IF w.si.connected = FALSE THEN w
    ELSE IF BadStream(w) /\ ub = "crash" THEN Crash(w)
    ELSE IF SlotValue(w, "pipeline") = Garbage
    THEN IF ub = "crash" THEN Crash(w) ELSE w
    ELSE IF SlotValue(w, "pipeline") = NULL THEN w
    ELSE printElements(w, 1)

\* splitParams appending the characters after the fifth delimiter to the
\* fifth field instead of dropping them
splitParamsKeepExtra(command) ==
    LET delims == {i \in 1..Len(command) : command[i] = ":" \/ command[i] = "\n"}
        before(i) == Cardinality({j \in delims : j < i})
        idx(k) == {i \in 1..Len(command) :
                     i \notin delims /\ (before(i) = k \/ (k = 4 /\ before(i) > 4))}
        field(k) == [n \in 1..Cardinality(idx(k)) |->
                       command[CHOOSE i \in idx(k) :
                                 Cardinality({j \in idx(k) : j <= i}) = n]]
    IN  [params |-> [k \in 1..5 |-> field(k - 1)], delimeter |-> Cardinality(delims)]

\* processCommand's parsing loop: every ':' or newline counts as a
\* delimiter, every other character is appended to params[delimeter] while
\* delimeter <= 4 and dropped after that.  The fields are computed from the
\* positions of the delimiters.
splitParams(command) ==
    LET delims == {i \in 1..Len(command) : command[i] = ":" \/ command[i] = "\n"}
        before(i) == Cardinality({j \in delims : j < i})
        field(k) ==
            LET idx == {i \in 1..Len(command) : i \notin delims /\ before(i) = k}
            IN  IF idx = {} THEN <<>>
                ELSE SubSeq(command,
                            CHOOSE i \in idx : \A j \in idx : i <= j,
                            CHOOSE i \in idx : \A j \in idx : i >= j)
    IN  [params |-> [k \in 1..5 |-> field(k - 1)], delimeter |-> Cardinality(delims)]

\* processCommand without the test delimeter < 4
processCommandNoCount(w, command, ub) ==
    LET p == splitParams(command)
        w1 == [w EXCEPT !.dispatched = Append(@, command)]
    IN  IF p.params[1] = STR_setparam
        THEN doCommandSetParameter(w1, p.params, ub)
        ELSE IF p.params[1] = STR_printbin THEN doCommandPrintBin(w1, ub)
        ELSE IF p.params[1] = STR_status THEN doCommandSendStatus(w1)
        ELSE w1

\* processCommand matching the status keyword with a capital S as well
processCommandAnyCase(w, command, ub) ==
    LET p == splitParams(command)
        w1 == [w EXCEPT !.dispatched = Append(@, command)]
    IN  IF p.params[1] = STR_setparam
        THEN IF p.delimeter < 4 THEN w1 ELSE doCommandSetParameter(w1, p.params, ub)
        ELSE IF p.params[1] = STR_printbin THEN doCommandPrintBin(w1, ub)
        ELSE IF p.params[1] = STR_status \/ p.params[1] = STR_Status
        THEN doCommandSendStatus(w1)
        ELSE w1

\* processCommand (command, len): the first len bytes of the line buffer
processCommand(w, command, ub) ==
    LET p == splitParams(command)
        w1 == [w EXCEPT !.dispatched = Append(@, command)]
    IN  IF p.params[1] = STR_setparam
        THEN IF p.delimeter < 4 THEN w1 ELSE doCommandSetParameter(w1, p.params, ub)
        ELSE IF p.params[1] = STR_printbin THEN doCommandPrintBin(w1, ub)
        ELSE IF p.params[1] = STR_status THEN doCommandSendStatus(w1)
        ELSE w1

\* what the store ch_buffer[pos++] = ch does when pos is past the array:
\* the byte lands in the neighbouring stack memory and the loop goes on,
\* the process faults, or the byte lands on pos itself
ReaderUBOutcomes == {"benign", "crash", "clobber"}

\* the index of the first newline of bytes at or after i, Len(bytes) + 1 if none
lineEnd(bytes, i) ==
    LET nl == {j \in i..Len(bytes) : bytes[j] = "\n"}
    IN  IF nl = {} THEN Len(bytes) + 1 ELSE CHOOSE j \in nl : \A k \in nl : j <= k

RECURSIVE storeRun(_, _)
\* reader's stores ch_buffer[pos++] = ch for a run of bytes without newline,
\* starting at pos = 0: pos and ch_buffer[0..pos-1] after the run.  The
\* store is not bounds-checked; oob is the index of the first store past
\* the array (-1 if none).
storeRun(run, ub) ==
    IF Len(run) <= CH_BUFFER_SIZE
    THEN [pos |-> Len(run), buf |-> run, oob |-> -1, crashed |-> FALSE]
    ELSE CASE ub = "crash" ->
                [pos |-> CH_BUFFER_SIZE, buf |-> <<>>, oob |-> CH_BUFFER_SIZE, crashed |-> TRUE]
           [] ub = "clobber" ->
                [storeRun(SubSeq(run, CH_BUFFER_SIZE + 2, Len(run)), ub)
                    EXCEPT !.oob = CH_BUFFER_SIZE]
           [] OTHER ->
                [pos |-> Len(run), buf |-> SubSeq(run, 1, CH_BUFFER_SIZE),
                 oob |-> CH_BUFFER_SIZE, crashed |-> FALSE]

RECURSIVE readerLoop(_, _, _, _)
\* reader's while loop, one line per step: the bytes from i up to the next
\* newline are stored, then the newline, or read() returning 0 or -1
\* (EAGAIN) after the last byte, takes the else branches: a full buffer is
\* declared invalid, a non-empty one is given to processCommand.
\* (The dbg calls print ch_buffer with %s though it is not terminated; the
\* over-read changes no state and is left out.)
readerLoop(w, bytes, i, ub) ==
    LET e == lineEnd(bytes, i)
        r == storeRun(SubSeq(bytes, i, e - 1), ub)
        w0 == IF r.oob >= 0
              THEN Emit(w, Ev("store", "ch_buffer", "out-of-bounds", r.oob))
              ELSE w
        w1 == IF r.pos >= CH_BUFFER_SIZE
              THEN Emit(w0, Ev("invalid", "ch_buffer", "", r.pos))
              ELSE IF r.pos > 0
              THEN processCommand(w0, SubSeq(r.buf, 1, r.pos),
                                  IF ub = "crash" THEN "crash" ELSE "benign")
              ELSE w0
    IN  IF r.crashed THEN Crash(w)
        ELSE IF w1.crashed \/ e > Len(bytes) THEN w1
        ELSE readerLoop(w1, bytes, e + 1, ub)

\* reader: pos = 0 at every invocation
reader(w, bytes, ub) == readerLoop(w, bytes, 1, ub)

\* periodicMessageHandler
periodicMessageHandler(w, ub) ==
    IF w.si.connected = FALSE
    THEN [w EXCEPT !.glib.timers = @ - 1]
    ELSE IF w.si.periodicStatusMessageRate > 0
    THEN IF BadStream(w) /\ ub = "crash" THEN Crash(w)
         ELSE IF SlotValue(w, "protocol") = Garbage /\ ub = "crash" THEN Crash(w)
         ELSE Emit(w, Ev("g_object_get", "protocol", "stats", SlotValue(w, "protocol")))
    ELSE [w EXCEPT !.glib.timers = @ - 1]


---------------------------------------------------------------------------
(* Version 1.4 of the command interpreter (the first half of the source    *)
(* file): do_command_setparam replies to every command on the status       *)
(* channel.                                                                *)

\* setup_status_pipe_if_needed (version 1.4): the descriptor of a status
\* pipe that was not opened yet is 0
setup_status_pipe_if_needed(w) ==
    IF w.si.statusPipe /\ w.si.statusPipeFd = 0
    THEN IF w.gst.statusPipeOpens
         THEN Emit([w EXCEPT !.si.statusPipeFd = w.gst.nextFd,
                             !.si.statusPipeStream = Handle],
                   Ev("open", "statusPipe", "ok", w.gst.nextFd))
         ELSE Emit([w EXCEPT !.si.statusPipeFd = -1,
                             !.si.statusPipeStream = NULL],
                   Ev("open", "statusPipe", "failed", -1))
    ELSE w

\* send_status_pipe_msg (version 1.4); val is the data of the message
send_status_pipe_msg(w, msg_type, val) ==
    LET w1 == setup_status_pipe_if_needed(w)
    IN  IF w1.si.statusPipeStream # NULL
        THEN Emit(w1, Ev("msg", msg_type, "statusPipe", val))
        ELSE Emit(w1, Ev("msg", msg_type, "stdout", val))

\* the text every format string of do_command_setparam ends with, after
\* the four fields of the command
STR_not_streaming == "not streaming"

\* atof (paramValue): the leading number, 0 when there is none; a value out
\* of double's range is infinite and the property takes its largest value
atofValue(chars) ==
    IF StrtodRangeError(chars) THEN G_MAXINT ELSE LeadingNumber(chars, 1, 0)

\* do_command_setparam (version 1.4).  params = <<action, elementName,
\* padName, paramName, paramValue>>.  GLib's argument checks turn a call on
\* a NULL object into a logged no-op.
do_command_setparam(w, params, ub) ==
    LET reply(x) == send_status_pipe_msg(x, "setparam", STR_not_streaming)
    IN
    IF w.si.connected = FALSE THEN reply(w)
    ELSE IF BadStream(w) /\ ub = "crash" THEN Crash(w)
    ELSE IF SlotValue(w, "pipeline") = NULL THEN reply(w)
    ELSE IF SlotValue(w, "pipeline") = Garbage /\ ub = "crash" THEN Crash(w)
    ELSE
    LET name == ElementNamed(params[2])
        gstElement == IF SlotValue(w, "pipeline") = Garbage THEN NULL
                      ELSE Lookup(w, name)
        w1 == Emit(w, Ev("gst_bin_get_by_name", name, "", gstElement))
        w2 == IF gstElement = NULL THEN reply(w1) ELSE w1
        hasPad == params[3] # <<>>
        \* every element here has the static pads "src" and "sink" at most
        gstPad == IF hasPad /\ gstElement # NULL /\ params[3] = STR_src THEN Handle ELSE NULL
        w3 == IF hasPad
              THEN Emit(w2, Ev("gst_element_get_static_pad", name, "pad", gstElement))
              ELSE w2
        prop == PropertyNamed(params[4])
        value == atofValue(params[5])
        w4 == IF gstPad # NULL
              THEN Emit(Emit(w3, Ev("set_property", "pad", prop, value)),
                        Ev("unref", "pad", "", gstPad))
              ELSE LET w4a == Emit(w3, Ev("set_property", name, prop, gstElement))
                   IN  IF gstElement = NULL THEN w4a
                       ELSE IF name = "enc0" /\ prop = "bitrate"
                       THEN [w4a EXCEPT !.gst.encBitrate = value]
                       ELSE IF name = "enc0" /\ prop = "quant-param"
                       THEN [w4a EXCEPT !.gst.encQuant = value]
                       ELSE w4a
    IN  IF hasPad /\ gstPad = NULL
        THEN reply(Emit(w3, Ev("unref", name, "", gstElement)))
        ELSE Emit(reply(w4), Ev("unref", name, "", gstElement))

RECURSIVE print_elements(_, _)
\* do_command_print_bin's iteration (version 1.4):
\* print_object_properties_info sends one message for each element
print_elements(w, i) ==
    IF i > Len(w.gst.launch) THEN w
    ELSE print_elements(send_status_pipe_msg(w, "pipelineobjectprops", i), i + 1)

\* do_command_print_bin (version 1.4): GST_IS_BIN is false of NULL
do_command_print_bin(w, ub) ==
    IF w.si.connected = FALSE THEN w
    ELSE IF BadStream(w) /\ ub = "crash" THEN Crash(w)
    ELSE IF SlotValue(w, "pipeline") = Garbage
    THEN IF ub = "crash" THEN Crash(w) ELSE w
    ELSE IF SlotValue(w, "pipeline") = NULL THEN w
    ELSE print_elements(w, 1)

\* _do_command_status (version 1.4): the same fields under their 1.4 names
do_command_status(w) ==
    send_status_pipe_msg(w, "status", StatusData(w.si))

\* process_command (version 1.4)
process_command(w, command, ub) ==
    LET p == splitParams(command)
        w1 == [w EXCEPT !.dispatched = Append(@, command)]
    IN  IF p.params[1] = STR_setparam
        THEN IF p.delimeter < 4 THEN w1 ELSE do_command_setparam(w1, p.params, ub)
        ELSE IF p.params[1] = STR_printbin THEN do_command_print_bin(w1, ub)
        ELSE IF p.params[1] = STR_status THEN do_command_status(w1)
        ELSE w1

RECURSIVE readerLoopV14(_, _, _, _)
\* reader's while loop (version 1.4), one line per step, as readerLoop
readerLoopV14(w, bytes, i, ub) ==
    LET e == lineEnd(bytes, i)
        r == storeRun(SubSeq(bytes, i, e - 1), ub)
        w0 == IF r.oob >= 0
              THEN Emit(w, Ev("store", "ch_buffer", "out-of-bounds", r.oob))
              ELSE w
        w1 == IF r.pos >= CH_BUFFER_SIZE
              THEN Emit(w0, Ev("invalid", "ch_buffer", "", r.pos))
              ELSE IF r.pos > 0
              THEN process_command(w0, SubSeq(r.buf, 1, r.pos),
                                   IF ub = "crash" THEN "crash" ELSE "benign")
              ELSE w0
    IN  IF r.crashed THEN Crash(w)
        ELSE IF w1.crashed \/ e > Len(bytes) THEN w1
        ELSE readerLoopV14(w1, bytes, e + 1, ub)

\* reader (version 1.4): pos = 0 at every invocation
readerV14(w, bytes, ub) == readerLoopV14(w, bytes, 1, ub)


---------------------------------------------------------------------------
(* The environment: the process writing to the command pipe, the RTSP      *)
(* clients, and the media factory.                                         *)

\* the pipelines the factory can be told to launch: the built-in one, and
\* the usage text's user pipeline, which names only pay0
LaunchChoices == {<<"source0", "caps0", "enc0", "pay0">>,
                  <<"videotestsrc0", "imxvpuenc_h264-0", "pay0">>}

STR_setparam_enc0_bitrate_7 ==
    STR_setparam \o <<":">> \o STR_enc0 \o <<":", ":">> \o STR_bitrate \o <<":", "7">>

\* the line action:elementName:padName:paramName:paramValue
SetparamLine(elementName, padName, paramName, paramValue) ==
    STR_setparam \o <<":">> \o elementName \o <<":">> \o padName \o <<":">>
        \o paramName \o <<":">> \o paramValue

\* setparam lines with every field in place
FullSetparamLines ==
    {SetparamLine(STR_enc0, <<>>, STR_bitrate, <<"7">>),
     SetparamLine(STR_enc0, <<>>, STR_bitrate, <<"7">>) \o <<":", "9", ":", "x">>,
     SetparamLine(STR_nosuch, <<>>, STR_bitrate, <<"7">>),
     SetparamLine(STR_nosuch, STR_src, STR_bitrate, <<"7">>),
     SetparamLine(STR_enc0, <<>>, STR_bitrate, <<>>),
     SetparamLine(STR_enc0, <<>>, STR_bitrate, STR_abc),
     SetparamLine(STR_enc0, <<>>, STR_bitrate, STR_1e999)}

\* setparam lines with fewer than 4 delimiters
ShortSetparamLines ==
    {STR_setparam \o <<":">> \o STR_enc0 \o <<":">> \o STR_bitrate \o <<":", "7">>,
     STR_setparam}

\* lines whose action is none of the three keywords
OtherActionLines ==
    {STR_Status, <<":">> \o STR_status, STR_status \o <<"x">>, SubSeq(STR_status, 1, 4)}

\* the lines of the command specification
CommandLines ==
    {STR_status, STR_printbin, STR_status \o <<":", "x">>}
        \cup FullSetparamLines \cup ShortSetparamLines \cup OtherActionLines

\* a line of n bytes that is no command
Filler(n, c) == [k \in 1..n |-> c]

\* the longest line that fits the line buffer
FitLine == Filler(CH_BUFFER_SIZE - 1, "y")

\* whole command lines
SessionLines == {STR_status, STR_printbin, STR_setparam_enc0_bitrate_7}

\* a line that fills the line buffer, leaving no room for a terminator
FullLine == Filler(CH_BUFFER_SIZE, "z")

\* lines longer than the line buffer
OversizeLines == {Filler(CH_BUFFER_SIZE + k, "x") : k \in 1..MaxExcess}

\* lines around the size of the line buffer
LongLines == {FitLine, FullLine} \cup OversizeLines

\* where the writer may split a line: after ShortCut bytes, or where the
\* line buffer would be full
Cuts == {ShortCut, CH_BUFFER_SIZE}

\* the writing process starts a line: it writes the whole line with its
\* newline, or only its first cut bytes
WriteLine(lines, cuts) ==
    /\ pc = "run"
    /\ si.commandPipeFd # NO_FILE
    /\ writerRest = <<>>
    /\ cmdPipe = <<>>
    /\ \E line \in lines :
         LET full == Append(line, "\n")
         IN  \/ /\ cmdPipe' = full
                /\ writerRest' = <<>>
             \/ \E cut \in cuts :
                  /\ cut < Len(full)
                  /\ cmdPipe' = SubSeq(full, 1, cut)
                  /\ writerRest' = SubSeq(full, cut + 1, Len(full))
    /\ UNCHANGED <<argv, si, gst, pc, atoiMaxBr, pendingMedia, first_run, glib, log, dispatched>>

\* the writing process writes the rest of the line it started
WriteRest ==
    /\ pc = "run"
    /\ writerRest # <<>>
    /\ cmdPipe' = cmdPipe \o writerRest
    /\ writerRest' = <<>>
    /\ UNCHANGED <<argv, si, gst, pc, atoiMaxBr, pendingMedia, first_run, glib, log, dispatched>>

\* a callback has run in world w and left world r
Callback(r) ==
    IF r.crashed
    THEN /\ pc' = "crashed"
         /\ UNCHANGED <<si, gst, first_run, glib, log, dispatched>>
    ELSE /\ pc' = pc
         /\ si' = r.si
         /\ gst' = r.gst
         /\ first_run' = r.first_run
         /\ glib' = r.glib
         /\ log' = r.log
         /\ dispatched' = r.dispatched

\* the 100 ms timer runs reader, which drains the command pipe; reader
\* returns TRUE, so the timer stays scheduled
Reader ==
    /\ pc = "run"
    /\ glib.reader > 0
    /\ \E ub \in ReaderUBOutcomes : Callback(reader(World, cmdPipe, ub))
    /\ cmdPipe' = <<>>
    /\ UNCHANGED <<argv, atoiMaxBr, pendingMedia, writerRest>>

\* version 1.4: the 100 ms timer runs reader
ReaderV14 ==
    /\ pc = "run"
    /\ glib.reader > 0
    /\ \E ub \in ReaderUBOutcomes : Callback(readerV14(World, cmdPipe, ub))
    /\ cmdPipe' = <<>>
    /\ UNCHANGED <<argv, atoiMaxBr, pendingMedia, writerRest>>

\* "client-connected": a client attaches; it will ask for its media later
NewClient(maxClients) ==
    /\ pc = "run"
    /\ si.numConnectedClients < maxClients
    /\ \E uninit \in {NULL, Garbage}, ub \in UBOutcomes :
         Callback(newClientHandler(World, uninit, ub))
    /\ pendingMedia' = pendingMedia + 1
    /\ UNCHANGED <<argv, atoiMaxBr, cmdPipe, writerRest>>

\* "media-configure": the factory has constructed the media of a client
MediaConfigure ==
    /\ pc = "run"
    /\ pendingMedia > 0
    /\ glib.mediaConfigure > 0
    /\ glib.timers < MaxTimers
    /\ \E ub \in UBOutcomes : Callback(mediaConfigureHandler(World, ub))
    /\ pendingMedia' = pendingMedia - 1
    /\ UNCHANGED <<argv, atoiMaxBr, cmdPipe, writerRest>>

\* "closed": an attached client goes away, with or without having had its
\* media constructed
ClientClose ==
    /\ pc = "run"
    /\ si.numConnectedClients > 0
    /\ \E ub \in UBOutcomes : Callback(clientCloseHandler(World, ub))
    /\ \E p \in {pendingMedia, pendingMedia - 1} :
         /\ p >= 0
         /\ p <= si.numConnectedClients - 1
         /\ pendingMedia' = p
    /\ UNCHANGED <<argv, atoiMaxBr, cmdPipe, writerRest>>

\* the status FIFO becomes openable (it is created, a reader appears) or
\* stops being so (it is removed)
StatusPipeEnv ==
    /\ pc = "run"
    /\ si.statusPipe
    /\ gst' = [gst EXCEPT !.statusPipeOpens = ~@]
    /\ UNCHANGED <<argv, si, pc, atoiMaxBr, pendingMedia, cmdPipe, writerRest,
                   first_run, glib, log, dispatched>>

\* a periodic message timer fires
PeriodicMessage ==
    /\ pc = "run"
    /\ glib.timers > 0
    /\ \E ub \in UBOutcomes : Callback(periodicMessageHandler(World, ub))
    /\ UNCHANGED <<argv, atoiMaxBr, pendingMedia, cmdPipe, writerRest>>

---------------------------------------------------------------------------
(* Specifications *)

\* atoi(MAX_BR) is evaluated only while a bitrate option is parsed
UsesMaxBr(args) ==
    args.capBitrate # <<>> \/ args.minBitrate # <<>> \/ args.maxBitrate # <<>>

\* main, from the command line to g_main_loop_run or the error exit;
\* opens is whether the status pipe can be opened at the start
InitEnv(argSet, launches, commandPipe, statusPipe, opens) ==
    /\ \E args \in argSet :
         /\ argv = args
         /\ atoiMaxBr \in (IF UsesMaxBr(args) THEN AtoiMaxBrOutcomes ELSE {0})
         /\ LET info == Main(args, atoiMaxBr)
            IN  IF ValidInputs(info)
                THEN /\ pc = "run"
                     /\ si = [info EXCEPT !.commandPipe = commandPipe,
                                 !.statusPipe = statusPipe,
                                 !.commandPipeFd = IF commandPipe THEN 3 ELSE NO_FILE]
                ELSE /\ pc = "exit"
                     /\ si = info
    /\ \E l \in launches, o \in opens :
         gst = [launch |-> l, encBitrate |-> 0, encQuant |-> 0,
                statusPipeOpens |-> o, nextFd |-> 4]
    /\ pendingMedia = 0
    /\ cmdPipe = <<>>
    /\ writerRest = <<>>
    /\ first_run = TRUE
    /\ glib = [mediaConfigure |-> 0, timers |-> 0,
               reader |-> IF commandPipe THEN 1 ELSE 0]
    /\ log = <<>>
    /\ dispatched = <<>>

\* main without --status-pipe
InitWith(argSet, launches, commandPipe) ==
    InitEnv(argSet, launches, commandPipe, FALSE, {TRUE})

\* command lines of the whole-program specification: the defaults, quant
\* scaling over the full range and over a narrow one, bitrate scaling below
\* a cap, and a step count the validation refuses
SpecArgs ==
    {NoArgs,
     [NoArgs EXCEPT !.maxQuant = <<51>>],
     [NoArgs EXCEPT !.minQuant = <<10>>, !.maxQuant = <<51>>, !.steps = <<2>>],
     [NoArgs EXCEPT !.capBitrate = <<10000>>, !.maxBitrate = <<5000>>],
     [NoArgs EXCEPT !.steps = <<1>>]}

\* the whole program, with whole command lines on the command pipe
Init == InitWith(SpecArgs, LaunchChoices, TRUE)

Next ==
    \/ NewClient(MaxClients)
    \/ MediaConfigure
    \/ ClientClose
    \/ PeriodicMessage
    \/ WriteLine(SessionLines, {})
    \/ Reader

Spec == Init /\ [][Next]_vars

\* the quality controller alone: every combination of the options, more
\* clients, no command pipe
InitQuality == InitWith(Args, {<<"source0", "caps0", "enc0", "pay0">>}, FALSE)

NextQuality ==
    \/ NewClient(MaxViewers)
    \/ MediaConfigure
    \/ ClientClose
    \/ PeriodicMessage

SpecQuality == InitQuality /\ [][NextQuality]_vars

\* the command pipe alone: default options, at most one client, lines
\* written in pieces and lines around the size of the line buffer
InitReader == InitWith({NoArgs}, {<<"source0", "caps0", "enc0", "pay0">>}, TRUE)

NextReader ==
    \/ WriteLine({STR_status} \cup LongLines, Cuts)
    \/ WriteRest
    \/ Reader
    \/ NewClient(1)
    \/ MediaConfigure
    \/ ClientClose
    \/ PeriodicMessage

SpecReader == InitReader /\ [][NextReader]_vars

\* the command interpreter: every kind of command line, whole, with up to
\* MaxCmdClients clients, on both pipelines
InitCommands == InitWith({NoArgs}, LaunchChoices, TRUE)

NextCommands ==
    \/ WriteLine(CommandLines, {})
    \/ Reader
    \/ NewClient(MaxCmdClients)
    \/ MediaConfigure
    \/ ClientClose
    \/ PeriodicMessage

SpecCommands == InitCommands /\ [][NextCommands]_vars

\* the status channel: --status-pipe is given, and the FIFO may or may not
\* be openable when a message is sent
InitStatus ==
    InitEnv({NoArgs}, {<<"source0", "caps0", "enc0", "pay0">>}, TRUE, TRUE, BOOLEAN)

NextStatus ==
    \/ StatusPipeEnv
    \/ WriteLine({STR_status, STR_printbin}, {})
    \/ Reader
    \/ NewClient(MaxCmdClients)
    \/ MediaConfigure
    \/ ClientClose
    \/ PeriodicMessage

SpecStatus == InitStatus /\ [][NextStatus]_vars


\* the command interpreter of version 1.4.  Its session callbacks make the
\* same stores to connected, the client count and the element slots as
\* those of version 1.5, which are what do_command_setparam reads.
NextV14 ==
    \/ WriteLine(CommandLines, {})
    \/ ReaderV14
    \/ NewClient(MaxCmdClients)
    \/ MediaConfigure
    \/ ClientClose
    \/ PeriodicMessage

SpecV14 == InitCommands /\ [][NextV14]_vars


---------------------------------------------------------------------------
(* Claims *)

\* the most recent callback performed a side effect with this op and object
Did(op, obj) == \E i \in 1..Len(log) : log[i].op = op /\ log[i].obj = obj

\* C1: while the main loop runs, after any sequence of attach, media-configure,
\* detach, timer and command events, minQuantLevel <= currentQuantLevel <=
\* maxQuantLevel.
C1_QuantInRange ==
    pc = "run" =>
        /\ si.minQuantLevel <= si.currentQuantLevel
        /\ si.currentQuantLevel <= si.maxQuantLevel

\* C1 witness: changeQuant has just stored a value above the minimum for
\* three clients
C1_Witness ==
    /\ pc = "run"
    /\ si.numConnectedClients = 3
    /\ Did("changeQuant", "encoder")
    /\ si.currentQuantLevel > si.minQuantLevel

\* C2: while the main loop runs with bitrate scaling configured, minBitrate <=
\* currentBitrate <= maxBitrate, the value assigned at start-up included.
C2_BitrateInRange ==
    pc = "run" /\ si.maxBitrate > 0 =>
        /\ si.minBitrate <= si.currentBitrate
        /\ si.currentBitrate <= si.maxBitrate

\* the client counts the quality functions are compared at
Counts == 1..(2 * MaxViewers)

QuantAt(n) == computeQuant([si EXCEPT !.numConnectedClients = n])

BitrateAt(n) == computeBitrate([si EXCEPT !.numConnectedClients = n])

\* C3: for every configuration the validation accepts and all client counts
\* 1 <= a <= b, the quant level changeQuant computes for a clients is <= the
\* one it computes for b clients.
C3_QuantMonotone ==
    pc = "run" =>
        \A a \in Counts, b \in Counts : a <= b => QuantAt(a) <= QuantAt(b)

\* C3 witness: changeQuant has just stored, for two or more clients, a level
\* above the one it computes for one client fewer
C3_Witness ==
    /\ pc = "run"
    /\ si.numConnectedClients >= 2
    /\ Did("changeQuant", "encoder")
    /\ si.currentQuantLevel = QuantAt(si.numConnectedClients)
    /\ QuantAt(si.numConnectedClients - 1) < si.currentQuantLevel

\* C4: for every configuration the validation accepts with bitrate scaling
\* selected and all client counts 1 <= a <= b, the bitrate changeBitrate computes for a clients is >= the
\* one it computes for b clients.
C4_BitrateMonotone ==
    pc = "run" /\ si.maxBitrate # 0 =>
        \A a \in Counts, b \in Counts : a <= b => BitrateAt(a) >= BitrateAt(b)

Min(a, b) == IF a < b THEN a ELSE b

\* the spec's scenario: minQuant = 0, maxQuant = 51, steps = 4
ScenarioAt(n) ==
    computeQuant([InfoInit EXCEPT !.minQuantLevel = 0, !.maxQuantLevel = 51,
                                  !.steps = 4, !.numConnectedClients = n])

\* C5: when changeQuant has run with the encoder bound, currentQuantLevel is
\* min(minQuant + (clientCount - 1) * step, maxQuant) with step = (maxQuant -
\* minQuant) div steps; for minQuant 0, maxQuant 51, steps 4 that is 0 at 1
\* client, 48 at 5 clients and 51 at 10 clients.
C5_QuantFormula ==
    /\ Did("changeQuant", "encoder") =>
         si.currentQuantLevel =
             Min(si.minQuantLevel
                   + (si.numConnectedClients - 1)
                       * ((si.maxQuantLevel - si.minQuantLevel) \div si.steps),
                 si.maxQuantLevel)
    /\ ScenarioAt(1) = 0
    /\ ScenarioAt(5) = 48
    /\ ScenarioAt(10) = 51

\* C5 witness: the scenario's configuration with five clients, changeQuant
\* has just stored 48
C5_Witness ==
    /\ pc = "run"
    /\ si.minQuantLevel = 0 /\ si.maxQuantLevel = 51 /\ si.steps = 4
    /\ si.numConnectedClients = 5
    /\ Did("changeQuant", "encoder")
    /\ si.currentQuantLevel = 48

\* the max bitrate the operator configured with -b, 0 when the option is absent
ConfiguredMaxBitrate == IF argv.maxBitrate = <<>> THEN 0 ELSE argv.maxBitrate[1]

\* C6: every adaptation event performs bitrate scaling if the operator
\* configured a nonzero max bitrate, and quant scaling if the configured max
\* bitrate is zero.
C6_ModeByConfiguredMaxBitrate ==
    pc = "run" =>
        \A i \in 1..Len(log) :
            log[i].op = "call" =>
                (log[i].obj = "changeBitrate" <=> ConfiguredMaxBitrate # 0)

\* g_object_set was called on the encoder's property in the trace l
Wrote(l, name) ==
    \E i \in 1..Len(l) :
        /\ l[i].op \in {"set", "set-rejected"}
        /\ l[i].obj = "encoder"
        /\ l[i].name = name

\* C7: a recompute writes the encoder property if and only if the value it
\* computed differs from the value stored before; recomputing again for the
\* same client count stores the same value and writes nothing.
C7_WriteIffChanged ==
    /\ \A i \in 1..Len(log) :
         /\ log[i].op = "changeQuant" =>
              (Wrote(log, "quant-param") <=> si.currentQuantLevel # log[i].val)
         /\ log[i].op = "changeBitrate" =>
              (Wrote(log, "bitrate") <=> si.currentBitrate # log[i].val)
    /\ Did("changeQuant", "encoder") =>
         \A ub \in UBOutcomes :
             LET w == changeQuant(World, ub)
             IN  w.si = si /\ ~Wrote(w.log, "quant-param")
    /\ Did("changeBitrate", "encoder") =>
         \A ub \in UBOutcomes :
             LET w == changeBitrate(World, ub)
             IN  w.si = si /\ ~Wrote(w.log, "bitrate")

\* C7 witness: a third client attached or left, changeQuant computed the level
\* that was already stored and wrote nothing
C7_Witness ==
    /\ pc = "run"
    /\ si.numConnectedClients = 3
    /\ \E i \in 1..Len(log) :
         log[i].op = "changeQuant" /\ log[i].val = si.currentQuantLevel
    /\ si.currentQuantLevel > si.minQuantLevel
    /\ ~Wrote(log, "quant-param")

\* C8: after every callback numConnectedClients >= 0, and connected is true
\* if and only if numConnectedClients > 0.
C8_ConnectedIffClients ==
    /\ si.numConnectedClients >= 0
    /\ si.connected <=> si.numConnectedClients > 0

\* C8 witness: the last client has left and its stream slots were freed
C8_Witness ==
    /\ pc = "run"
    /\ si.numConnectedClients = 0
    /\ Did("free", "stream")
    /\ ~si.connected

\* the lines the writing process writes to the command pipe
WrittenLines == {STR_status} \cup LongLines

\* C9: processCommand is called only with the bytes of a whole line, also
\* when the line's bytes arrive across several invocations of reader.
C9_DispatchWholeLines ==
    \A i \in 1..Len(dispatched) : dispatched[i] \in WrittenLines

\* part of a line longer than the line buffer
OversizeFragment(cmd) ==
    \E line \in OversizeLines, a \in 1..(CH_BUFFER_SIZE + MaxExcess) :
        /\ a + Len(cmd) - 1 <= Len(line)
        /\ Len(cmd) > 0
        /\ cmd = SubSeq(line, a, a + Len(cmd) - 1)

\* C10: no prefix or fragment of a line longer than the line buffer is passed
\* to processCommand.
C10_OversizeDiscarded ==
    \A i \in 1..Len(dispatched) : ~OversizeFragment(dispatched[i])

\* the world a callback leaves, without its record of dispatched commands
Effects(w) == [si |-> w.si, gst |-> w.gst, log |-> w.log, crashed |-> w.crashed]

RECURSIVE FieldsOf(_)
\* the ':'-separated fields of a line, in order
FieldsOf(s) ==
    LET colons == {i \in 1..Len(s) : s[i] = ":"}
        c == CHOOSE i \in colons : \A j \in colons : i <= j
    IN  IF colons = {} THEN <<s>>
        ELSE <<SubSeq(s, 1, c - 1)>> \o FieldsOf(SubSeq(s, c + 1, Len(s)))

\* the k-th field of a line, empty if the line has fewer fields
FieldOf(s, k) == IF k <= Len(FieldsOf(s)) THEN FieldsOf(s)[k] ELSE <<>>

\* a line up to the ':' that ends its fifth field
FirstFive(s) ==
    LET cut == {i \in 1..Len(s) :
                  s[i] = ":" /\ Cardinality({j \in 1..i : s[j] = ":"}) = 5}
    IN  IF cut = {} THEN s ELSE SubSeq(s, 1, (CHOOSE i \in cut : TRUE) - 1)

\* the setparam line with two fields too many
ExtraFieldsLine ==
    SetparamLine(STR_enc0, <<>>, STR_bitrate, <<"7">>) \o <<":", "9", ":", "x">>

\* lines with more than five fields
ManyFieldsLines ==
    {ExtraFieldsLine, STR_printbin \o <<":", ":", ":", ":", ":", "z">>}

\* C11: processCommand splits a line on ':' into its first five fields in
\* order; what follows the fifth field's ':' changes none of them, and the
\* command is dispatched as the line cut after its fifth field is.
C11_FiveFields ==
    /\ \A i \in 1..Len(dispatched), k \in 1..5 :
         splitParams(dispatched[i]).params[k] = FieldOf(dispatched[i], k)
    /\ \A l \in ManyFieldsLines :
         /\ FirstFive(l) # l
         /\ splitParams(l).params = splitParams(FirstFive(l)).params
         /\ \A ub \in UBOutcomes :
              Effects(processCommand(World, l, ub))
                  = Effects(processCommand(World, FirstFive(l), ub))

\* C11 witness: the line with two fields too many was dispatched while the
\* encoder was in the pipeline, and the encoder's bitrate was set to its
\* fifth field
C11_Witness ==
    /\ pc = "run"
    /\ dispatched = <<ExtraFieldsLine>>
    /\ \E i \in 1..Len(log) :
         log[i] = Ev("set_property", "enc0", "bitrate", Handle)
    /\ gst.encBitrate = 7

\* C12: while the session is not connected, a setparam command sets no
\* property, makes no call on any element or pad, reads no element slot (so
\* it cannot fault on the released slots) and leaves the session unchanged.
C12_SetparamUnconnected ==
    ~si.connected =>
        /\ \A l \in FullSetparamLines, ub \in UBOutcomes :
             Effects(processCommand(World, l, ub)) = Effects(World)
        /\ (dispatched # <<>> /\ dispatched[1] \in FullSetparamLines) => log = <<>>

\* C12 witness: a setparam command with every field was dispatched after the
\* last client had left and the element slots had been freed
C12_Witness ==
    /\ pc = "run"
    /\ ~si.connected
    /\ si.streamMem = "freed"
    /\ dispatched = <<SetparamLine(STR_enc0, <<>>, STR_bitrate, <<"7">>)>>
    /\ log = <<>>

\* the calls doCommandSetParameter makes on the element it looked up
ElementCalls == {"gst_element_get_static_pad", "set_property", "unref"}

\* C13: when gst_bin_get_by_name does not find, in the pipeline of the
\* configured media, the element a setparam command names, no getPad, setProperty or release call is made on the handle it
\* returned.
C13_NotFoundSkipped ==
    \A i \in 1..Len(log) :
        (/\ si.streamMem = "alloc"
         /\ si.stream["pipeline"] = Handle
         /\ log[i].op = "gst_bin_get_by_name"
         /\ log[i].val = NULL) =>
            \A j \in (i + 1)..Len(log) :
                ~(log[j].op \in ElementCalls /\ log[j].obj = log[i].obj)

\* a paramValue strtod cannot parse as a number: empty, not starting with a
\* digit, or out of double's range
Unparsable(v) == v = <<>> \/ ~IsDigit(v[1]) \/ StrtodRangeError(v)

\* C14: a setparam command whose paramValue cannot be parsed as a number sets
\* no property on the element or pad it names.
C14_UnparsableNotSet ==
    \A i \in 1..Len(dispatched) :
        LET p == splitParams(dispatched[i])
        IN  (p.params[1] = STR_setparam /\ p.delimeter >= 4 /\ Unparsable(p.params[5])) =>
                ~\E j \in 1..Len(log) :
                    log[j].op = "set_property" /\ log[j].val = Handle

\* the most recent callback sent a message of this type
Sent(type) == \E i \in 1..Len(log) : log[i].op = "msg" /\ log[i].obj = type

\* C15: a line whose action is setparam but which has fewer than 4 delimiters
\* is rejected before dispatch: doCommandSetParameter is not called, no
\* property is set, no reply is sent and nothing changes.
C15_ShortSetparamRejected ==
    /\ \A l \in ShortSetparamLines, ub \in UBOutcomes :
         /\ splitParams(l).params[1] = STR_setparam
         /\ splitParams(l).delimeter < 4
         /\ Effects(processCommand(World, l, ub)) = Effects(World)
    /\ (dispatched # <<>> /\ dispatched[1] \in ShortSetparamLines) => log = <<>>

\* C15 witness: with a client attached and its media configured, a setparam
\* line with 3 delimiters was dispatched and nothing was done
C15_Witness ==
    /\ pc = "run"
    /\ si.connected
    /\ si.streamMem = "alloc"
    /\ si.stream["pipeline"] = Handle
    /\ si.stream["encoder"] = Handle
    /\ Len(dispatched) = 1
    /\ dispatched[1] \in ShortSetparamLines
    /\ splitParams(dispatched[1]).delimeter = 3
    /\ log = <<>>

\* C16: an action that is not exactly setparam, printbin or status (another
\* case, an empty action, a longer or shorter word) sends no message, sets no
\* property and changes nothing; the exact keyword status sends the status.
C16_ExactAction ==
    /\ \A l \in OtherActionLines, ub \in UBOutcomes :
         Effects(processCommand(World, l, ub)) = Effects(World)
    /\ (dispatched # <<>> /\ dispatched[1] \in OtherActionLines) => log = <<>>
    /\ dispatched = <<STR_status>> => Sent("status")

\* C16 witness: with a client attached and its media configured, the line
\* Status was dispatched and nothing was done
C16_Witness ==
    /\ pc = "run"
    /\ si.connected
    /\ si.streamMem = "alloc"
    /\ si.stream["pipeline"] = Handle
    /\ dispatched = <<STR_Status>>
    /\ log = <<>>

\* the status messages of the most recent callback
StatusMessages == {i \in 1..Len(log) : log[i].op = "msg" /\ log[i].obj = "status"}

\* C17: a status command issued with numConnectedClients = N sends exactly
\* one status message; it reports numConnectedClients = N, connected = (N >
\* 0), the quant level within [minQuantLevel, maxQuantLevel] and, when
\* bitrate scaling is selected, the bitrate within [minBitrate, maxBitrate];
\* the command does not modify the session.
C17_StatusReport ==
    dispatched = <<STR_status>> =>
        /\ Cardinality(StatusMessages) = 1
        /\ \A i \in StatusMessages :
             /\ log[i].val.numConnectedClients = si.numConnectedClients
             /\ log[i].val.connected = (si.numConnectedClients > 0)
             /\ log[i].val.minQuantLevel <= log[i].val.currentQuantLevel
             /\ log[i].val.currentQuantLevel <= log[i].val.maxQuantLevel
             /\ si.maxBitrate > 0 =>
                  /\ log[i].val.minBitrate <= log[i].val.currentBitrate
                  /\ log[i].val.currentBitrate <= log[i].val.maxBitrate
        /\ \A ub \in UBOutcomes : processCommand(World, STR_status, ub).si = si

\* the releases of one element slot in the most recent callback
Releases(slot) == {i \in 1..Len(log) : log[i].op = "unref" /\ log[i].obj = slot}

\* the session is idle and the most recent callback ended with the final
\* status message: no client, not connected, every element slot released
\* once at most and cleared, the slot array freed, then one status message
\* reporting connected = false and numConnectedClients = 0
LastDetachDone ==
    /\ pc = "run"
    /\ si.numConnectedClients = 0
    /\ ~si.connected
    /\ si.streamMem = "freed"
    /\ \A e \in SlotNames : si.stream[e] = NULL /\ Cardinality(Releases(e)) <= 1
    /\ Did("free", "stream")
    /\ Cardinality(StatusMessages) = 1
    /\ Len(log) \in StatusMessages
    /\ log[Len(log)].val.connected = FALSE
    /\ log[Len(log)].val.numConnectedClients = 0

\* C18: when the last client detaches, the session is idle at the end of
\* that same callback and the final status message has been sent after the
\* elements were released.
C18_LastDetach ==
    [][(pc = "run" /\ si.numConnectedClients = 1 /\ ClientClose) => LastDetachDone']_vars

\* the same for a session whose media was configured, so that the element
\* slots hold what mediaConfigureHandler bound
LastDetachConfigured ==
    [][(/\ pc = "run"
        /\ si.numConnectedClients = 1
        /\ \A e \in SlotNames : si.stream[e] # Garbage
        /\ ClientClose) => LastDetachDone']_vars

\* the session is Active: a client is attached and the element slots are
\* bound to the media's pipeline
Active ==
    /\ si.connected
    /\ si.streamMem = "alloc"
    /\ si.stream["pipeline"] = Handle

\* the elements a trace has an elementprops message for, and how many such
\* messages it has
PropsMessages(l) == {i \in 1..Len(l) : l[i].op = "msg" /\ l[i].obj = "elementprops"}

PropsElements(l) == {l[i].val : i \in PropsMessages(l)}

\* C19: a printbin command in an Active session ends after sending exactly
\* one elementprops message for each element of the pipeline; while not
\* connected it sends nothing, reads no element slot and changes nothing.
C19_PrintBin ==
    /\ Active =>
         \A ub \in UBOutcomes :
             LET r == processCommand(World, STR_printbin, ub)
             IN  /\ ~r.crashed
                 /\ r.si = si
                 /\ Cardinality(PropsMessages(r.log)) = Len(gst.launch)
                 /\ PropsElements(r.log) = 1..Len(gst.launch)
                 /\ Len(r.log) = Len(gst.launch)
    /\ ~si.connected =>
         \A ub \in UBOutcomes :
             Effects(processCommand(World, STR_printbin, ub)) = Effects(World)
    /\ (dispatched = <<STR_printbin>> /\ Active) =>
         /\ Cardinality(PropsMessages(log)) = Len(gst.launch)
         /\ PropsElements(log) = 1..Len(gst.launch)
    /\ (dispatched = <<STR_printbin>> /\ ~si.connected) => log = <<>>

\* C19 witness: printbin was dispatched in an Active session on the built-in
\* pipeline and four elementprops messages were sent
C19_Witness ==
    /\ pc = "run"
    /\ Active
    /\ dispatched = <<STR_printbin>>
    /\ Len(gst.launch) = 4
    /\ Cardinality(PropsMessages(log)) = 4

\* the most recent callback could not open the status pipe, so that its
\* message went to stdout
FallbackSelected ==
    \E i \in 1..Len(log) : log[i] = Ev("open", "statusPipe", "failed", -1)

\* a trace in which the status pipe is opened, or tried to
OpenAttempt(l) == \E i \in 1..Len(l) : l[i].op = "open" /\ l[i].obj = "statusPipe"

\* a trace in which a message is written to the status pipe
PipeMessage(l) == \E i \in 1..Len(l) : l[i].op = "msg" /\ l[i].name = "statusPipe"

\* C20: once a message has fallen back to stdout because the status pipe
\* could not be opened, the fallback is permanent: no later callback tries to
\* open the status pipe again and none writes a message to it.
C20_FallbackPermanent ==
    [][(FallbackSelected /\ log' # log) => (~OpenAttempt(log') /\ ~PipeMessage(log'))]_vars

\* the attempts to open the status pipe in a trace, and its messages
Opens(l) == {i \in 1..Len(l) : l[i].op = "open" /\ l[i].obj = "statusPipe"}

Messages(l) == {i \in 1..Len(l) : l[i].op = "msg"}

\* main leaves the status pipe unopened; it is opened only inside
\* sendStatusPipeMessage, directly before the message is written, by the
\* first message sent while it is not open; and once an open has succeeded
\* no later message and no later callback opens it again
LazyOpen ==
    /\ si.statusPipeFd = NO_FILE
    /\ si.statusPipeStream = NULL
    /\ Opens(log) = {}
    /\ [][/\ \A i \in Opens(log') : i + 1 \in Messages(log')
          /\ (si.statusPipe /\ si.statusPipeFd = NO_FILE /\ log' # log
                  /\ Messages(log') # {}) =>
                \E i \in Opens(log') : \A j \in Messages(log') : i < j
          /\ \A i \in Opens(log') :
                log'[i].name = "ok" => \A j \in Opens(log') : j <= i
          /\ si.statusPipeStream # NULL =>
                /\ si'.statusPipeStream = si.statusPipeStream
                /\ si'.statusPipeFd = si.statusPipeFd
                /\ log' # log => Opens(log') = {}]_vars

\* C21: the status pipe is not opened during start-up; the open happens
\* only inside the first emission of a status message, before that message
\* is written: a callback that follows one that has sent a message opens
\* nothing, and after a successful open the pipe is never opened again.
C21_OpenInFirstEmission ==
    /\ si.statusPipeFd = NO_FILE
    /\ si.statusPipeStream = NULL
    /\ Opens(log) = {}
    /\ [][/\ \A i \in Opens(log'), j \in Messages(log') : i < j
          /\ (Messages(log) # {} /\ log' # log) => Opens(log') = {}
          /\ si.statusPipeStream # NULL =>
                /\ si'.statusPipeFd = si.statusPipeFd
                /\ log' # log => Opens(log') = {}]_vars

\* a single client is attached and its media has not been configured: where
\* one client attaches at a time, the session has created no periodic timer
\* yet, and every timer still scheduled was created for an earlier session
OnlyEarlierTimers == si.numConnectedClients = 1 /\ pendingMedia = 1

\* C22: the periodic timer of a session stops with the session: the first
\* time it fires after the session has ended, periodicMessageHandler
\* returns FALSE and the timer is removed, so it never fires again.
C22_TimerEndsWithSession ==
    [][(OnlyEarlierTimers /\ PeriodicMessage /\ pc' = "run") =>
          glib'.timers < glib.timers]_vars

\* more bytes than the line buffer holds are waiting without a newline
Overrun == lineEnd(cmdPipe, 1) > CH_BUFFER_SIZE + 1

\* an invocation of reader returned: the main loop goes on, every waiting
\* byte was consumed, the 100 ms timer stays scheduled, and with nothing
\* waiting nothing was dispatched and nothing changed
PollReturned ==
    /\ pc' = "run"
    /\ cmdPipe' = <<>>
    /\ glib'.reader = glib.reader
    /\ cmdPipe = <<>> =>
          /\ dispatched' = <<>>
          /\ log' = <<>>
          /\ si' = si
          /\ gst' = gst

\* C23: every invocation of reader ends and returns TRUE: it consumes all
\* the bytes waiting on the command pipe, with no input it dispatches
\* nothing, and the poll stays scheduled in every session state.
C23_PollReturns == [][Reader => PollReturned]_vars

\* the same for invocations that find no more bytes of one line waiting
\* than the line buffer holds
PollReturnsWithinBuffer == [][(Reader /\ ~Overrun) => PollReturned]_vars

\* the bounds of a configuration are consistent
BoundsConsistent(info) ==
    /\ info.minQuantLevel <= info.maxQuantLevel
    /\ info.steps >= 1
    /\ info.maxBitrate > 0 => info.minBitrate <= info.maxBitrate

\* no callback has run since main parsed the command line
NothingRan ==
    /\ si = Main(argv, atoiMaxBr)
    /\ first_run
    /\ glib.mediaConfigure = 0
    /\ glib.timers = 0
    /\ pendingMedia = 0
    /\ log = <<>>
    /\ dispatched = <<>>

\* C24: whenever the main loop has been started the bounds are consistent
\* (minQuantLevel <= maxQuantLevel, steps >= 1 and, with maxBitrate > 0,
\* minBitrate <= maxBitrate), so changeQuant and changeBitrate never divide
\* by zero; with inconsistent bounds main returns the error code before the
\* main loop and no callback ever runs.
C24_ConfigErrorsFatal ==
    /\ [](/\ pc # "exit" => BoundsConsistent(si)
          /\ ~BoundsConsistent(Main(argv, atoiMaxBr)) => pc = "exit"
          /\ pc = "exit" => NothingRan)
    /\ [][pc = "run"]_vars

\* C24 witness: main refused a max bitrate that is not above the min bitrate
C24_Witness ==
    /\ pc = "exit"
    /\ si.maxBitrate > 0
    /\ si.minBitrate > si.maxBitrate
    /\ NothingRan

\* C25: whenever connected is FALSE, none of the element slots pipeline,
\* source, encoder and protocol is bound: each holds NULL.
C25_UnboundWhenIdle ==
    ~si.connected => \A e \in SlotNames : si.stream[e] = NULL

\* C25 witness: the last client of a configured session has left, and the
\* four bound elements were released in that callback
C25_Witness ==
    /\ pc = "run"
    /\ ~si.connected
    /\ si.streamMem = "freed"
    /\ \A e \in SlotNames : Did("unref", e) /\ si.stream[e] = NULL
    /\ \A i \in 1..Len(log) : log[i].op = "unref" => log[i].val = Handle

\* the releases in a trace: an element slot's handle unreferenced, or the
\* slot array freed
Frees(l) == {i \in 1..Len(l) : l[i].op = "free" /\ l[i].obj = "stream"}

SlotReleases(l) == {i \in 1..Len(l) : l[i].op = "unref" /\ l[i].obj \in SlotNames}

\* the stores of a trace that replaced a bound handle, which is not released
\* then and cannot be released later
DroppedHandles(l) == {i \in 1..Len(l) : l[i].op = "bind" /\ l[i].val = Handle}

\* releases happen only in the callback that takes numConnectedClients
\* from 1 to 0, no slot is released twice in it, the slot array is freed
\* once, and the pipeline is set to GST_STATE_NULL before it is released
ReleasedInLastDetach ==
    /\ (SlotReleases(log) # {} \/ Frees(log) # {}) =>
          /\ si.numConnectedClients = 0
          /\ ~si.connected
          /\ si.streamMem = "freed"
          /\ Cardinality(Frees(log)) = 1
    /\ \A e \in SlotNames : Cardinality(Releases(e)) <= 1
    /\ \A i \in Releases("pipeline") :
          \E j \in 1..(i - 1) : log[j].op = "set_state" /\ log[j].obj = "pipeline"

\* the callback that takes numConnectedClients from 1 to 0 releases every
\* bound slot and frees the slot array
LastDetachReleasesAll ==
    (pc = "run" /\ si.numConnectedClients = 1 /\ ClientClose /\ pc' = "run") =>
        /\ \A e \in SlotNames :
              si.stream[e] # NULL =>
                  \E i \in 1..Len(log') :
                      log'[i] = Ev("unref", e, "", si.stream[e])
        /\ si.streamMem = "alloc"
        /\ si'.streamMem = "freed"

\* the release discipline for the handles the slots hold when the last
\* client leaves
ReleaseDiscipline == []ReleasedInLastDetach /\ [][LastDetachReleasesAll]_vars

\* C26: every handle bound in a session, and the slot array, is released
\* exactly once, in the callback that takes numConnectedClients from 1 to
\* 0 and nowhere else; no handle is released twice, none is lost unreleased,
\* and the pipeline is stopped before it is released.
C26_ReleasedOnce ==
    /\ [](ReleasedInLastDetach /\ DroppedHandles(log) = {})
    /\ [][LastDetachReleasesAll]_vars

\* C27: in a session the slots are bound once: a media-configure event that
\* finds a slot bound does not store to it again, so that every handle bound
\* is in its slot when the session returns to Idle and is released there.
C27_BoundOnce ==
    [][(MediaConfigure /\ pc' = "run") =>
          \A e \in SlotNames :
              si.stream[e] = Handle =>
                  ~\E i \in 1..Len(log') : log'[i].op = "bind" /\ log'[i].obj = e]_vars

\* the allocations of the slot array in a trace
Mallocs(l) == {i \in 1..Len(l) : l[i].op = "malloc" /\ l[i].obj = "stream"}

\* C28: the slot array is allocated only in the attach callback that takes
\* numConnectedClients from 0 to 1, never while an array allocated earlier
\* has not been freed; it exists exactly while clients are attached, and
\* allocations and frees alternate.
C28_AllocAlternates ==
    /\ si.streamMem = "null"
    /\ [](/\ si.streamMem = "alloc" <=> si.numConnectedClients >= 1
          /\ Mallocs(log) # {} =>
                /\ Cardinality(Mallocs(log)) = 1
                /\ si.numConnectedClients = 1
                /\ Frees(log) = {})
    /\ [][/\ (Mallocs(log') # {} /\ log' # log) =>
                /\ si.streamMem # "alloc"
                /\ si.numConnectedClients = 0
                /\ si'.numConnectedClients = 1
          /\ (si.streamMem # "alloc" /\ si'.streamMem = "alloc") =>
                Mallocs(log') # {}
          /\ (si.streamMem = "alloc" /\ si'.streamMem # "alloc") =>
                /\ si'.streamMem = "freed"
                /\ Cardinality(Frees(log')) = 1
                /\ Mallocs(log') = {}]_vars

\* C28 witness: a client has attached after an earlier session had ended,
\* and the slot array was allocated again
C28_Witness ==
    /\ pc = "run"
    /\ si.numConnectedClients = 1
    /\ si.streamMem = "alloc"
    /\ Cardinality(Mallocs(log)) = 1
    /\ ~Did("g_signal_connect", "media-configure")
    /\ glib.mediaConfigure = 1

\* an adaptation event has run to its end: an attach that made
\* numConnectedClients >= 2, or a detach that left numConnectedClients >= 1
AdaptationEvent ==
    /\ pc = "run"
    /\ pc' = "run"
    /\ \/ /\ si'.numConnectedClients = si.numConnectedClients + 1
          /\ si'.numConnectedClients >= 2
       \/ /\ si'.numConnectedClients = si.numConnectedClients - 1
          /\ si'.numConnectedClients >= 1

\* the calls of changeBitrate and changeQuant in a trace
Calls(l, f) == {i \in 1..Len(l) : l[i].op = "call" /\ l[i].obj = f}

\* the callback of this step called changeBitrate once and changeQuant not
\* at all, and left the quant level alone
OnlyBitrateAdapted ==
    /\ Cardinality(Calls(log', "changeBitrate")) = 1
    /\ Calls(log', "changeQuant") = {}
    /\ si'.currentQuantLevel = si.currentQuantLevel
    /\ gst'.encQuant = gst.encQuant

\* the callback of this step called changeQuant once and changeBitrate not
\* at all, and left the bitrate alone
OnlyQuantAdapted ==
    /\ Cardinality(Calls(log', "changeQuant")) = 1
    /\ Calls(log', "changeBitrate") = {}
    /\ si'.currentBitrate = si.currentBitrate
    /\ gst'.encBitrate = gst.encBitrate

\* the callback of this step called neither and changed neither value
NothingAdapted ==
    /\ Calls(log', "changeBitrate") = {}
    /\ Calls(log', "changeQuant") = {}
    /\ si'.currentBitrate = si.currentBitrate
    /\ si'.currentQuantLevel = si.currentQuantLevel
    /\ gst'.encBitrate = gst.encBitrate
    /\ gst'.encQuant = gst.encQuant

\* C29: an adaptation event in variable mode runs exactly one of
\* changeBitrate and changeQuant, changeBitrate if and only if maxBitrate > 0,
\* and leaves the other quality value unchanged; without variable mode it
\* changes neither.
C29_OneModePerEvent ==
    [][AdaptationEvent =>
          IF ~si.enableVariableMode THEN NothingAdapted
          ELSE IF si.maxBitrate > 0 THEN OnlyBitrateAdapted
          ELSE OnlyQuantAdapted]_vars

\* the same with the test the handlers make, maxBitrate != 0
OneModePerEventNonzero ==
    [][AdaptationEvent =>
          IF ~si.enableVariableMode THEN NothingAdapted
          ELSE IF si.maxBitrate # 0 THEN OnlyBitrateAdapted
          ELSE OnlyQuantAdapted]_vars

\* exactly one client is attached and the elements are bound
OneClientActive == pc = "run" /\ si.numConnectedClients = 1 /\ Active

\* C30: with exactly one client attached and the elements bound, the
\* quality value of the active mode is at its starting bound:
\* currentBitrate = maxBitrate in bitrate mode (maxBitrate > 0),
\* currentQuantLevel = minQuantLevel in quant mode.
C30_StartingBound ==
    OneClientActive =>
        IF si.maxBitrate > 0
        THEN si.currentBitrate = si.maxBitrate
        ELSE si.currentQuantLevel = si.minQuantLevel

\* the quant level alone: at minQuantLevel whenever one client is attached
\* (on the built-in pipeline, where the encoder slot is bound)
QuantStartingBound ==
    OneClientActive => si.currentQuantLevel = si.minQuantLevel

\* the name mediaConfigureHandler looks an element slot's element up by
ElementOf(slot) ==
    CASE slot = "source" -> "source0"
      [] slot = "encoder" -> "enc0"
      [] slot = "protocol" -> "pay0"

\* the initial properties of an element slot, from the configuration s
InitialProperties(s, slot) ==
    CASE slot = "source" -> {<<"device", 0>>}
      [] slot = "encoder" -> {<<"bitrate", s.currentBitrate>>,
                              <<"quant-param", s.currentQuantLevel>>,
                              <<"idr-interval", s.idr>>}
      [] slot = "protocol" -> {<<"config-interval", s.configInterval>>}

\* the properties a trace sets through an element slot
SetsThrough(l, slot) ==
    {<<l[i].name, l[i].val>> :
        i \in {j \in 1..Len(l) : l[j].op \in {"set", "set-rejected"} /\ l[j].obj = slot}}

\* the media's pipeline has an element of this name
InPipeline(name) == \E i \in 1..Len(gst.launch) : gst.launch[i] = name

\* C31: in mediaConfigureHandler an element that is not found leaves its
\* slot unbound and no property is set through it, every element that is
\* found is bound and given its initial properties, and the callback
\* completes with the session Active.
C31_MissingElementNonFatal ==
    [][MediaConfigure =>
          /\ pc' = "run"
          /\ Active'
          /\ \A e \in {"source", "encoder", "protocol"} :
                IF InPipeline(ElementOf(e))
                THEN /\ si'.stream[e] = Handle
                     /\ SetsThrough(log', e) = InitialProperties(si, e)
                ELSE /\ si'.stream[e] = NULL
                     /\ SetsThrough(log', e) = {}]_vars

\* C31 witness: the media of a pipeline without source0 and enc0 was
\* configured: the two slots are unbound, pay0 is bound and was given its
\* config-interval, and the session is Active
C31_Witness ==
    /\ pc = "run"
    /\ Active
    /\ ~InPipeline("source0") /\ ~InPipeline("enc0")
    /\ Did("bind", "encoder")
    /\ si.stream["source"] = NULL /\ si.stream["encoder"] = NULL
    /\ si.stream["protocol"] = Handle
    /\ SetsThrough(log, "protocol") = {<<"config-interval", si.configInterval>>}

\* the media-configure step binds the slots by the lookups in the media's
\* pipeline, sets the initial properties from the configuration as it is
\* now, through the found elements only, and leaves the session Active
BindsAndConfigures ==
    /\ pc' = "run"
    /\ Active'
    /\ si'.stream["pipeline"] = Handle
    /\ \A e \in {"source", "encoder", "protocol"} :
          /\ si'.stream[e] = (IF InPipeline(ElementOf(e)) THEN Handle ELSE NULL)
          /\ SetsThrough(log', e) =
                (IF InPipeline(ElementOf(e)) THEN InitialProperties(si, e) ELSE {})

\* the calls of g_signal_connect for media-configure in a trace
Subscriptions(l) ==
    {i \in 1..Len(l) : l[i].op = "g_signal_connect" /\ l[i].obj = "media-configure"}

\* the first attach of a session after the first: no client was attached,
\* and newClientHandler has run before
LaterFirstAttach ==
    /\ pc = "run" /\ pc' = "run"
    /\ ~first_run
    /\ si.numConnectedClients = 0
    /\ si'.numConnectedClients = 1

\* C32: the media-configure handler is connected exactly once, by the very
\* first run of newClientHandler (first_run), and stays connected; the first
\* attach of every later session connects nothing and leaves the handler
\* in effect, and every media-configure event, in the first session and in
\* every later one, binds the elements, sets the initial properties and
\* leaves the session Active.
C32_SubscribedOnce ==
    /\ first_run = TRUE
    /\ glib.mediaConfigure = 0
    /\ [](/\ glib.mediaConfigure = (IF first_run THEN 0 ELSE 1)
          /\ Cardinality(Subscriptions(log)) <= 1
          /\ pendingMedia > 0 => glib.mediaConfigure = 1)
    /\ [][/\ glib'.mediaConfigure >= glib.mediaConfigure
          /\ (Subscriptions(log') # {} /\ log' # log) =>
                /\ first_run /\ ~first_run'
                /\ si.numConnectedClients = 0 /\ si'.numConnectedClients = 1
          /\ (first_run /\ ~first_run') => Subscriptions(log') # {}
          /\ LaterFirstAttach =>
                /\ Subscriptions(log') = {}
                /\ glib'.mediaConfigure = 1
                /\ pendingMedia' = 1
          /\ MediaConfigure => BindsAndConfigures]_vars

\* C32 witness: a session has ended and a client has attached again: the
\* slot array was allocated anew, nothing was connected in this callback,
\* the handler connected in the first session is in effect and the media of
\* the client is still to be configured
C32_Witness ==
    /\ pc = "run"
    /\ si.numConnectedClients = 1
    /\ Cardinality(Mallocs(log)) = 1
    /\ Subscriptions(log) = {}
    /\ ~first_run
    /\ glib.mediaConfigure = 1
    /\ pendingMedia = 1
    /\ si.media = Handle

\* the replies of type setparam in a trace
SetparamReplies(l) == {i \in 1..Len(l) : l[i].op = "msg" /\ l[i].obj = "setparam"}

\* a trace in which a property of an element or of a pad was set
PropertySet(l) ==
    \E i \in 1..Len(l) :
        l[i].op = "set_property" /\ (l[i].obj = "pad" \/ l[i].val = Handle)

\* a command given to do_command_setparam: the action setparam with at
\* least 4 delimiters
SetparamDispatched(cmd) ==
    splitParams(cmd).params[1] = STR_setparam /\ splitParams(cmd).delimeter >= 4

\* C33: in version 1.4 every setparam command given to do_command_setparam
\* is answered by exactly one reply of type setparam, and the reply says
\* "not streaming" if and only if the command set no property.
C33_OneSetparamReply ==
    (Len(dispatched) = 1 /\ SetparamDispatched(dispatched[1])) =>
        /\ Cardinality(SetparamReplies(log)) = 1
        /\ \A i \in SetparamReplies(log) :
              (log[i].val = STR_not_streaming) <=> ~PropertySet(log)

\* the part that holds: a command that sets no property because the
\* session is not connected or the pipeline slot is unbound is answered by
\* exactly one reply, and every reply says "not streaming"
RepliesWhenNotStreaming ==
    (Len(dispatched) = 1 /\ SetparamDispatched(dispatched[1])) =>
        /\ SetparamReplies(log) # {}
        /\ \A i \in SetparamReplies(log) : log[i].val = STR_not_streaming
        /\ (~si.connected \/ si.stream["pipeline"] = NULL) =>
              /\ Cardinality(SetparamReplies(log)) = 1
              /\ ~PropertySet(log)

\* the line waiting on the command pipe makes the interpreter read the
\* pipeline slot: printbin, or setparam with at least 4 delimiters
SlotCommandWaiting ==
    /\ cmdPipe # <<>>
    /\ LET p == splitParams(SubSeq(cmdPipe, 1, lineEnd(cmdPipe, 1) - 1))
       IN  \/ p.params[1] = STR_printbin
           \/ p.params[1] = STR_setparam /\ p.delimeter >= 4

\* the callback of this step reads the element slot e as an rvalue: the
\* last detach reads all four, an attach or detach that recomputes the
\* quality reads the encoder slot, the periodic timer reads the protocol
\* slot, and printbin and setparam read the pipeline slot while connected
\* (mediaConfigureHandler reads the slots only after it has stored to them)
ReadsSlot(e) ==
    \/ ClientClose /\ si.numConnectedClients = 1
    \/ ClientClose /\ si.numConnectedClients > 1 /\ si.enableVariableMode /\ e = "encoder"
    \/ NewClient(MaxClients) /\ si.numConnectedClients >= 1
          /\ si.enableVariableMode /\ e = "encoder"
    \/ PeriodicMessage /\ si.connected /\ si.periodicStatusMessageRate > 0
          /\ e = "protocol"
    \/ Reader /\ si.connected /\ SlotCommandWaiting /\ e = "pipeline"

\* C34: every read of an element slot by a callback finds the slot array
\* allocated and the slot unbound or bound in the current session, never
\* the indeterminate content of an array that was allocated and not stored
\* to, under every interleaving of attach, media-configure, detach,
\* commands and timers.  (Indeterminate content that happens to be NULL
\* reads as unbound and is not counted.)
C34_SlotReadsDefined ==
    [][\A e \in SlotNames :
          ReadsSlot(e) => (si.streamMem = "alloc" /\ si.stream[e] # Garbage)]_vars

\* the part that holds: no slot is read while the slot array is
\* unallocated or freed
SlotReadsInAllocatedArray ==
    [][\A e \in SlotNames : ReadsSlot(e) => si.streamMem = "alloc"]_vars

\* the runs of bytes between newlines that wait on the command pipe: each
\* is stored from pos = 0 on
WaitingRuns ==
    {SubSeq(cmdPipe, i, lineEnd(cmdPipe, i) - 1) :
        i \in {j \in 1..Len(cmdPipe) : j = 1 \/ cmdPipe[j - 1] = "\n"}}

\* C35: whenever reader stores a byte in its line buffer, the write index is
\* below 256, whatever bytes arrive, more than 256 bytes without a newline
\* included.
C35_StoreWithinBuffer ==
    [][Reader =>
          \A run \in WaitingRuns, ub \in ReaderUBOutcomes : storeRun(run, ub).oob = -1]_vars

\* C36: at most one periodic message timer is scheduled at any time, over
\* any sequence of attach, media-configure and detach events, a new session
\* configured before the timer of the one before has fired included.
C36_OneTimer == glib.timers <= 1

\* the session is Active with the encoder bound
EncoderActive == pc = "run" /\ Active /\ si.stream["encoder"] = Handle

\* C37: whenever the session is Active with the encoder bound and variable
\* mode enabled, the stored quality value of the active mode is the one the
\* quality model gives for the current client count: currentBitrate =
\* computeBitrate in bitrate mode, currentQuantLevel = computeQuant in quant
\* mode, after any interleaving of attach, media-configure and detach
\* events, attaches before media-configure included.
C37_StoredMatchesModel ==
    (EncoderActive /\ si.enableVariableMode) =>
        IF si.maxBitrate # 0
        THEN si.currentBitrate = computeBitrate(si)
        ELSE si.currentQuantLevel = computeQuant(si)

\* the part that holds: the callback that has just recomputed the quality
\* with the encoder bound leaves the stored value at the model's value
StoredMatchesModelWhenAdapted ==
    (EncoderActive /\ si.enableVariableMode) =>
        /\ Did("changeBitrate", "encoder") => si.currentBitrate = computeBitrate(si)
        /\ Did("changeQuant", "encoder") => si.currentQuantLevel = computeQuant(si)

\* the encoder's own bitrate and quant-param are the stored values
EncoderHoldsStored ==
    /\ gst.encBitrate = si.currentBitrate
    /\ gst.encQuant = si.currentQuantLevel

\* C38: whenever the session is Active with the encoder bound, the encoder's
\* bitrate and quant-param properties equal the stored currentBitrate and
\* currentQuantLevel, after any sequence of attach and detach events and
\* setparam commands.
C38_EncoderMatchesStored == EncoderActive => EncoderHoldsStored

\* the same where no command is interpreted: attach, media-configure,
\* detach and timer events alone keep the encoder at the stored values
\* (the encoder is taken to accept every value written to it)
EncoderMatchesStoredWithoutCommands ==
    [](EncoderActive => EncoderHoldsStored) /\ [][~Reader]_vars

\* the handles a trace acquired by lookup: an element found by
\* gst_bin_get_by_name, a pad found by gst_element_get_static_pad
Acquired(l) ==
    {i \in 1..Len(l) :
        l[i].op \in {"gst_bin_get_by_name", "got_static_pad"} /\ l[i].val # NULL}

\* the releases of the handle acquired at i that follow it in the trace
ReleasesOf(l, i) ==
    {j \in (i + 1)..Len(l) :
        /\ l[j].op = "unref"
        /\ l[j].obj = (IF l[i].op = "got_static_pad" THEN "pad" ELSE l[i].obj)
        /\ l[j].val # NULL}

\* the calls of gst_object_unref on a NULL handle: a lookup that found
\* nothing
NullReleases(l) ==
    {j \in 1..Len(l) : l[j].op = "unref" /\ l[j].obj \notin SlotNames /\ l[j].val = NULL}

\* C39: on every return path of doCommandSetParameter every element handle
\* and pad handle acquired by lookup has been released exactly once, and
\* no release is performed on a handle that was not acquired.
C39_LookupsReleased ==
    /\ \A i \in Acquired(log) : Cardinality(ReleasesOf(log, i)) = 1
    /\ NullReleases(log) = {}

\* the part that holds: an element that was found is released exactly once
FoundElementsReleased ==
    \A i \in Acquired(log) :
        log[i].op = "gst_bin_get_by_name" => Cardinality(ReleasesOf(log, i)) = 1

====
